---- MODULE Spec2Model ----
(***************************************************************************)
(* Storage lifecycle manager of moyin-creator (electron/handlers):         *)
(* the storage configuration, the path resolver and the link / move /      *)
(* export / import handlers, over a model of the filesystem.               *)
(*                                                                         *)
(* A path string is a sequence of tokens: the separator "/", the blank     *)
(* " " and directory or file names.  The filesystem is keyed by resolved   *)
(* absolute path strings.                                                  *)
(***************************************************************************)
EXTENDS Naturals, Integers, Sequences, FiniteSets, TLC

VARIABLES
    storageConfig,   \* storage-state.ts: the in-memory StorageConfig
    configFile,      \* the StorageConfig persisted in storage-config.json
    fs,              \* the filesystem: [dirs, files]
    now,             \* the clock that names export snapshots
    ops,             \* the number of handler calls made so far
    last,            \* the last handler call: its name, argument and result,
                     \* and the state it was made in
    trip,            \* the progress of an export / import round trip
    autoCleanInterval, \* file-ops: the handle of the armed auto-clean timer
    timers           \* the interval timers that are armed in the event loop

vars ==
    <<storageConfig, configFile, fs, now, ops, last, trip, autoCleanInterval, timers>>

(***************************************************************************)
(* Bounds.                                                                 *)
(***************************************************************************)
MaxOps == 1        \* handler calls in one behaviour
MaxFaults == 2     \* injected I/O failures in one handler call

(***************************************************************************)
(* node:path (posix) over token sequences.                                 *)
(***************************************************************************)
Sep == "/"
Blank == " "
EmptyPath == << >>
RootPath == <<Sep>>
Cwd == RootPath                  \* process.cwd()
UserData == <<Sep, "u">>         \* app.getPath('userData')
TmpDir == <<Sep, "t">>           \* os.tmpdir()

StartsWith(s, p) ==
    /\ Len(p) <= Len(s)
    /\ SubSeq(s, 1, Len(p)) = p

IsAbsolute(s) == Len(s) > 0 /\ s[1] = Sep

RECURSIVE Collapse(_)
Collapse(s) ==
    IF Len(s) <= 1 THEN s
    ELSE IF s[1] = Sep /\ s[2] = Sep THEN Collapse(Tail(s))
    ELSE <<s[1]>> \o Collapse(Tail(s))

RECURSIVE StripTrailingSep(_)
StripTrailingSep(s) ==
    IF Len(s) > 1 /\ s[Len(s)] = Sep
    THEN StripTrailingSep(SubSeq(s, 1, Len(s) - 1))
    ELSE s

\* path.resolve(p): absolute, normalized, no trailing separator but for the root
PathResolve(p) ==
    StripTrailingSep(Collapse(IF IsAbsolute(p) THEN p ELSE Cwd \o <<Sep>> \o p))

\* path.join(a, b) for non-empty a and b: normalize(a + '/' + b)
PathJoin(a, b) == Collapse(a \o <<Sep>> \o b)

RECURSIVE DropLastName(_)
DropLastName(s) ==
    IF Len(s) = 0 \/ s[Len(s)] = Sep THEN s
    ELSE DropLastName(SubSeq(s, 1, Len(s) - 1))

\* path.dirname(p) of an absolute path
PathDirname(p) == StripTrailingSep(DropLastName(StripTrailingSep(p)))

\* the last name of a path (path.basename)
RECURSIVE LastName(_)
LastName(s) ==
    IF Len(s) = 0 \/ s[Len(s)] = Sep THEN << >>
    ELSE LastName(SubSeq(s, 1, Len(s) - 1)) \o <<s[Len(s)]>>

PathBasename(p) == LastName(StripTrailingSep(p))

LowerToken(t) == IF t = "D" THEN "d" ELSE t

\* String.prototype.toLowerCase
ToLowerCase(s) == [i \in 1..Len(s) |-> LowerToken(s[i])]

RECURSIVE TrimStart(_)
TrimStart(s) ==
    IF Len(s) > 0 /\ s[1] = Blank THEN TrimStart(Tail(s)) ELSE s

RECURSIVE TrimEnd(_)
TrimEnd(s) ==
    IF Len(s) > 0 /\ s[Len(s)] = Blank
    THEN TrimEnd(SubSeq(s, 1, Len(s) - 1))
    ELSE s

\* String.prototype.trim
Trim(s) == TrimEnd(TrimStart(s))

(***************************************************************************)
(* path-utils.ts                                                           *)
(***************************************************************************)
normalizePath(inputPath) ==
    IF IsAbsolute(inputPath) THEN inputPath ELSE PathResolve(inputPath)

isSubdirectory(parentPath, childPath) ==
    LET normalizedParent == ToLowerCase(PathResolve(parentPath)) \o <<Sep>>
        normalizedChild == ToLowerCase(PathResolve(childPath)) \o <<Sep>>
    IN  StartsWith(normalizedChild, normalizedParent)

NoConflict == "none"
DestInsideSource == "dest-in-source"     \* '目标路径不能是当前路径的子目录'
SourceInsideDest == "source-in-dest"     \* '当前路径不能是目标路径的子目录'

pathsConflict(source, dest) ==
    LET normalizedSource == ToLowerCase(PathResolve(source))
        normalizedDest == ToLowerCase(PathResolve(dest))
    IN  IF normalizedSource = normalizedDest THEN NoConflict
        ELSE IF isSubdirectory(source, dest) THEN DestInsideSource
        ELSE IF isSubdirectory(dest, source) THEN SourceInsideDest
        ELSE NoConflict

getStorageBasePath(config) ==
    LET configured == Trim(config.basePath)
        legacyProject == Trim(config.projectPath)
    IN  IF configured # EmptyPath THEN normalizePath(configured)
        ELSE IF legacyProject # EmptyPath
             THEN PathDirname(normalizePath(legacyProject))
        ELSE UserData

(***************************************************************************)
(* The filesystem: fs.dirs is the set of directories and fs.files maps     *)
(* each file to its content; both are keyed by resolved paths.             *)
(***************************************************************************)
Loc(p) == PathResolve(p)

\* p lies strictly below the directory root (both resolved)
Inside(p, root) ==
    IF root = RootPath THEN IsAbsolute(p) /\ p # RootPath
    ELSE StartsWith(p, root \o <<Sep>>)

WithinTree(p, root) == p = root \/ Inside(p, root)

\* the path of p relative to root, for p strictly below root
RelativeTo(p, root) ==
    IF root = RootPath THEN Tail(p)
    ELSE SubSeq(p, Len(root) + 2, Len(p))

Rebase(p, from, to) ==
    IF p = from THEN to ELSE PathJoin(to, RelativeTo(p, from))

RECURSIVE Ancestors(_)
Ancestors(p) ==
    IF p = RootPath \/ ~IsAbsolute(p) THEN {}
    ELSE {PathDirname(p)} \cup Ancestors(PathDirname(p))

IsDir(f, p) == Loc(p) \in f.dirs
IsFile(f, p) == Loc(p) \in DOMAIN f.files

\* fs.existsSync
existsSync(f, p) == IsDir(f, p) \/ IsFile(f, p)

FilesIn(f, root) == {p \in DOMAIN f.files : Inside(p, root)}
DirsIn(f, root) == {p \in f.dirs : Inside(p, root)}

\* fs.readdirSync / fs.promises.readdir: the entries of a directory
readdir(f, p) ==
    {q \in f.dirs \cup DOMAIN f.files : Inside(q, Loc(p)) /\ PathDirname(q) = Loc(p)}

\* fs.mkdirSync(p, { recursive: true })
mkdirSync(f, p) ==
    [f EXCEPT !.dirs = @ \cup {Loc(p)} \cup Ancestors(Loc(p))]

\* path-utils.ts ensureDir
ensureDir(f, dirPath) ==
    IF ~existsSync(f, dirPath) THEN mkdirSync(f, dirPath) ELSE f

\* fs.promises.rm(p, { recursive: true, force: true })
rmTree(f, p) ==
    [dirs |-> {q \in f.dirs : ~WithinTree(q, Loc(p))},
     files |-> [q \in {r \in DOMAIN f.files : ~WithinTree(r, Loc(p))} |-> f.files[q]]]

\* fs.unlinkSync
unlinkSync(f, p) ==
    [f EXCEPT !.files = [q \in DOMAIN f.files \ {Loc(p)} |-> f.files[q]]]

\* fs.writeFileSync
writeFileSync(f, p, value) ==
    [f EXCEPT !.files = [q \in DOMAIN f.files \cup {Loc(p)} |->
                            IF q = Loc(p) THEN value ELSE f.files[q]]]

(***************************************************************************)
(* fs.promises.cp(src, dest, { recursive: true, force: true }).            *)
(* It rejects before copying anything when src is missing, when src and    *)
(* dest are the same entry, when dest lies inside the directory src, and   *)
(* when one is a directory and the other a file.                           *)
(***************************************************************************)
cpRejects(f, src, dest) ==
    LET s == Loc(src)
        d == Loc(dest)
    IN  \/ ~existsSync(f, s)
        \/ s = d
        \/ IsDir(f, s) /\ Inside(d, s)
        \/ IsDir(f, s) /\ IsFile(f, d)
        \/ IsFile(f, s) /\ IsDir(f, d)

\* the files of the tree at src that a copy transfers: all of them, or, when
\* the copy fails part-way, those whose name is in keep
cpSelected(f, src, all, keep) ==
    LET s == Loc(src)
        srcFiles == {p \in DOMAIN f.files : WithinTree(p, s)}
    IN  IF all THEN srcFiles
        ELSE {p \in srcFiles : PathBasename(p) \in keep}

cpApply(f, src, dest, all, keep) ==
    LET s == Loc(src)
        d == Loc(dest)
        picked == cpSelected(f, src, all, keep)
        newFiles == {Rebase(p, s, d) : p \in picked}
        copiedDirs ==
            IF all /\ IsDir(f, s)
            THEN {d} \cup {Rebase(q, s, d) : q \in DirsIn(f, s)}
            ELSE {}
        newDirs == copiedDirs \cup UNION {Ancestors(q) : q \in newFiles \cup copiedDirs}
        origin(q) == CHOOSE p \in picked : Rebase(p, s, d) = q
    IN  [dirs |-> f.dirs \cup newDirs,
         files |-> [q \in DOMAIN f.files \cup newFiles |->
                       IF q \in newFiles THEN f.files[origin(q)] ELSE f.files[q]]]

(***************************************************************************)
(* Runs.  A run is the state of one handler call in flight: the filesystem *)
(* it has produced, whether an exception is propagating and from which     *)
(* step, how many more I/O failures may be injected, and whether every     *)
(* restore copy of a rollback has succeeded.  A step maps a run to the set *)
(* of runs it can end in.                                                  *)
(***************************************************************************)
Start(f) ==
    [fs |-> f, threw |-> FALSE, at |-> "none", budget |-> MaxFaults, restored |-> TRUE]

Throw(r, f, label) == [r EXCEPT !.fs = f, !.threw = TRUE, !.at = label]

\* an injected I/O failure uses up one of the failures of the call
Fail(r, f, label) ==
    [r EXCEPT !.fs = f, !.threw = TRUE, !.at = label, !.budget = @ - 1]

\* what a copy that fails part-way has transferred: the files of these names
Keeps == {{}, {<<"a.json">>}}

\* sequencing: the next step runs on every run that goes on, and is skipped
\* by every run that is propagating an exception
Thrown(runs) == {r \in runs : r.threw}
Live(runs) == {r \in runs : ~r.threw}

\* promise.catch(() => {}): the rejection of a step is swallowed
Swallow(r, outcomes) == {[q EXCEPT !.threw = FALSE, !.at = r.at] : q \in outcomes}

\* fs.promises.cp, with an I/O error part-way as one of its outcomes
cp(r, src, dest, label) ==
    IF cpRejects(r.fs, src, dest) THEN {Throw(r, r.fs, label)}
    ELSE {[r EXCEPT !.fs = cpApply(r.fs, src, dest, TRUE, {})]}
         \cup (IF r.budget > 0
               THEN {Fail(r, cpApply(r.fs, src, dest, FALSE, keep), label) : keep \in Keeps}
               ELSE {})

\* file-ops copyDir
copyDir(r, source, destination, label) ==
    cp([r EXCEPT !.fs = ensureDir(@, destination)], source, destination, label)

\* file-ops removeDir, with an I/O error before anything is removed as one
\* of its outcomes
removeDir(r, dirPath, label) ==
    {[r EXCEPT !.fs = rmTree(@, dirPath)]}
    \cup (IF r.budget > 0 THEN {Fail(r, r.fs, label)} ELSE {})

(***************************************************************************)
(* storage-state.ts                                                        *)
(***************************************************************************)
DEFAULT_STORAGE_CONFIG ==
    [basePath |-> EmptyPath, projectPath |-> EmptyPath, mediaPath |-> EmptyPath,
     autoCleanEnabled |-> FALSE, autoCleanDays |-> 30]

\* a merge that starts from the defaults instead of the present values
mergeOntoDefaults(config, partial) ==
    [k \in DOMAIN config \cup DOMAIN partial |->
        IF k \in DOMAIN partial THEN partial[k] ELSE DEFAULT_STORAGE_CONFIG[k]]

\* { ...storageConfig, ...partial }
mergeStorageConfig(config, partial) ==
    [k \in DOMAIN config \cup DOMAIN partial |->
        IF k \in DOMAIN partial THEN partial[k] ELSE config[k]]

\* a save that never reaches the file
saveStorageConfigNowhere(file, config, fails) == file

\* the content of storage-config.json after saveStorageConfig(); a failed
\* write is logged and swallowed
saveStorageConfig(file, config, fails) ==
    IF fails THEN file ELSE config

\* loadStorageConfig: the defaults overlaid with the parsed file
NoFile == [absent |-> TRUE]
loadStorageConfig(file) ==
    IF "absent" \in DOMAIN file THEN DEFAULT_STORAGE_CONFIG
    ELSE mergeStorageConfig(DEFAULT_STORAGE_CONFIG, file)

(***************************************************************************)
(* path-utils.ts: the resolved roots.  Resolving a root creates it.        *)
(***************************************************************************)
ProjectsName == <<"projects">>
MediaName == <<"media">>

ProjectRootOf(config) == PathJoin(getStorageBasePath(config), ProjectsName)
MediaRootOf(config) == PathJoin(getStorageBasePath(config), MediaName)

\* the filesystem after getProjectDataRoot() / getMediaRoot()
getProjectDataRoot(config, f) == ensureDir(f, ProjectRootOf(config))
getMediaRoot(config, f) == ensureDir(f, MediaRootOf(config))

(***************************************************************************)
(* Handler results.  A handler maps the configuration, the configuration   *)
(* file and the filesystem to the set of outcomes the call can have: the   *)
(* new configuration, file and filesystem, and the value returned.         *)
(***************************************************************************)
ErrEmpty == "path-empty"                \* '路径不能为空'
ErrNotFound == "not-found"              \* '目录不存在'
ErrNoValidData == "no-valid-data"       \* '... 需要 projects/ 或 media/ 子目录'
ErrThrown == "thrown"                   \* String(error) of a caught exception
NoError == "none"

Returned(config, file, f, success, error, path, threwAt, restored) ==
    [config |-> config, file |-> file, fs |-> f,
     success |-> success, error |-> error, path |-> path,
     threwAt |-> threwAt, restored |-> restored]

Failure(config, file, f, error) ==
    Returned(config, file, f, FALSE, error, EmptyPath, "none", TRUE)

\* the catch block of a handler: { success: false, error: String(error) }
Caught(config, file, r) ==
    Returned(config, file, r.fs, FALSE, ErrThrown, EmptyPath, r.at, r.restored)

\* mergeStorageConfig({ basePath, projectPath: '', mediaPath: '' })
Repointed(config, basePath) ==
    mergeStorageConfig(config,
        [basePath |-> basePath, projectPath |-> EmptyPath, mediaPath |-> EmptyPath])

(***************************************************************************)
(* storage-manager-handlers.ts: storage-link-data                          *)
(***************************************************************************)
\* a link that resolves the roots of the new base, which creates them
linkDataResolvingRoots(config, file, f, dirPath) ==
    IF dirPath = EmptyPath THEN {Failure(config, file, f, ErrEmpty)}
    ELSE
      LET target == normalizePath(dirPath)
          hasProjects == existsSync(f, PathJoin(target, ProjectsName))
          hasMedia == existsSync(f, PathJoin(target, MediaName))
          merged == Repointed(config, target)
      IN  IF ~existsSync(f, target) THEN {Failure(config, file, f, ErrNotFound)}
          ELSE IF ~hasProjects /\ ~hasMedia
               THEN {Failure(config, file, f, ErrNoValidData)}
          ELSE {Returned(merged, saveStorageConfig(file, merged, writeFails),
                         getMediaRoot(merged, getProjectDataRoot(merged, f)),
                         TRUE, NoError, target, "none", TRUE) :
                    writeFails \in BOOLEAN}

\* a link that does not look for projects/ and media/
linkDataUnvalidated(config, file, f, dirPath) ==
    IF dirPath = EmptyPath THEN {Failure(config, file, f, ErrEmpty)}
    ELSE
      LET target == normalizePath(dirPath)
          merged == Repointed(config, target)
      IN  IF ~existsSync(f, target) THEN {Failure(config, file, f, ErrNotFound)}
          ELSE {Returned(merged, saveStorageConfig(file, merged, writeFails),
                         f, TRUE, NoError, target, "none", TRUE) :
                    writeFails \in BOOLEAN}

\* a link that fails and keeps the old configuration when the save fails
linkDataFailingOnSave(config, file, f, dirPath) ==
    IF dirPath = EmptyPath THEN {Failure(config, file, f, ErrEmpty)}
    ELSE
      LET target == normalizePath(dirPath)
          hasProjects == existsSync(f, PathJoin(target, ProjectsName))
          hasMedia == existsSync(f, PathJoin(target, MediaName))
          merged == Repointed(config, target)
      IN  IF ~existsSync(f, target) THEN {Failure(config, file, f, ErrNotFound)}
          ELSE IF ~hasProjects /\ ~hasMedia
               THEN {Failure(config, file, f, ErrNoValidData)}
          ELSE {Returned(merged, merged, f, TRUE, NoError, target, "none", TRUE),
                Failure(config, file, f, ErrThrown)}

linkData(config, file, f, dirPath) ==
    IF dirPath = EmptyPath THEN {Failure(config, file, f, ErrEmpty)}
    ELSE
      LET target == normalizePath(dirPath)
          projectsDir == PathJoin(target, ProjectsName)
          mediaDir == PathJoin(target, MediaName)
          hasProjects == existsSync(f, projectsDir)
          hasMedia == existsSync(f, mediaDir)
          merged == Repointed(config, target)
      IN  IF ~existsSync(f, target) THEN {Failure(config, file, f, ErrNotFound)}
          ELSE IF ~hasProjects /\ ~hasMedia
               THEN {Failure(config, file, f, ErrNoValidData)}
          ELSE {Returned(merged, saveStorageConfig(file, merged, writeFails),
                         f, TRUE, NoError, target, "none", TRUE) :
                    writeFails \in BOOLEAN}

\* storage-link-project-data and storage-link-media-data (legacy handlers)
linkLegacyData(config, file, f, dirPath) ==
    LET target == normalizePath(dirPath)
        basePath == PathDirname(target)
        merged == Repointed(config, basePath)
    IN  {Returned(merged, saveStorageConfig(file, merged, writeFails),
                  f, TRUE, NoError, basePath, "none", TRUE) :
             writeFails \in BOOLEAN}

(***************************************************************************)
(* storage-manager-handlers.ts: storage-move-data                          *)
(***************************************************************************)
RECURSIVE cpEach(_, _, _, _, _)
cpEach(f, entries, toDir, all, keep) ==
    IF entries = {} THEN f
    ELSE LET e == CHOOSE x \in entries : TRUE
         IN  cpEach(cpApply(f, e, PathJoin(toDir, PathBasename(e)), all, keep),
                    entries \ {e}, toDir, all, keep)

\* a copy loop that moves: the source directory is gone once it is through
copyEntriesMoving(r, fromDir, toDir, label) ==
    {[r EXCEPT !.fs = rmTree(cpEach(r.fs, readdir(r.fs, fromDir), toDir, TRUE, {}), fromDir)]}

\* a copy loop that leaves alone the entries the target already holds
copyEntriesSkippingHeld(r, fromDir, toDir, label) ==
    {[r EXCEPT !.fs = cpEach(r.fs,
                          {e \in readdir(r.fs, fromDir) :
                               ~existsSync(r.fs, PathJoin(toDir, PathBasename(e)))},
                          toDir, TRUE, {})]}

\* for (const file of await readdir(fromDir)) await cp(join(fromDir, file),
\* join(toDir, file)): the loop throws at the first entry whose copy is
\* rejected or fails, the entries before it in directory order being copied
copyEntries(r, fromDir, toDir, label) ==
    LET entries == readdir(r.fs, fromDir)
        rejected == {e \in entries : cpRejects(r.fs, e, PathJoin(toDir, PathBasename(e)))}
    IN  IF rejected # {}
        THEN {Throw(r, cpEach(r.fs, entries \ rejected, toDir, FALSE, keep), label) :
                  keep \in Keeps}
        ELSE {[r EXCEPT !.fs = cpEach(r.fs, entries, toDir, TRUE, {})]}
             \cup (IF r.budget > 0
                   THEN {Fail(r, cpEach(r.fs, entries, toDir, FALSE, keep), label) :
                             keep \in Keeps}
                   ELSE {})

\* a removal of an old root that does not look where the root lies
removeOldRootAnywhere(r, oldRoot, label) ==
    Swallow(r, removeDir(r, oldRoot, label))

\* the removal of an old root after the configuration has been repointed
removeOldRoot(r, oldRoot, label) ==
    IF ~StartsWith(oldRoot, UserData)
    THEN Swallow(r, removeDir(r, oldRoot, label))
    ELSE {r}

\* the steps of a move up to the end of the copy
moveCopy(config, f, target) ==
    LET targetProjectsDir == PathJoin(target, ProjectsName)
        targetMediaDir == PathJoin(target, MediaName)
        ensured == ensureDir(ensureDir(f, targetProjectsDir), targetMediaDir)
        currentProjectsDir == ProjectRootOf(config)
        currentMediaDir == MediaRootOf(config)
        copiedProjects ==
            LET r == Start(getProjectDataRoot(config, ensured))
            IN  IF existsSync(r.fs, currentProjectsDir)
                THEN copyEntries(r, currentProjectsDir, targetProjectsDir, "copyProjects")
                ELSE {r}
    IN  Thrown(copiedProjects) \cup UNION {
            LET r == [p EXCEPT !.fs = getMediaRoot(config, @)]
            IN  IF existsSync(r.fs, currentMediaDir)
                THEN copyEntries(r, currentMediaDir, targetMediaDir, "copyMedia")
                ELSE {r} : p \in Live(copiedProjects)}

\* the steps of a move after the copy: repoint, persist, remove the old roots
moveCommit(config, file, r, target) ==
    LET merged == Repointed(config, target)
        removedProjects == removeOldRoot(r, ProjectRootOf(config), "rmProjects")
        removed ==
            Thrown(removedProjects) \cup UNION {
                removeOldRoot(q, MediaRootOf(config), "rmMedia") :
                    q \in Live(removedProjects)}
    IN  {Returned(merged, saveStorageConfig(file, merged, writeFails),
                  q.fs, TRUE, NoError, target, "none", TRUE) :
             q \in removed, writeFails \in BOOLEAN}

\* a move that repoints the configuration before the copy has completed
moveDataRepointFirst(config, file, f, newPath) ==
    IF newPath = EmptyPath THEN {Failure(config, file, f, ErrEmpty)}
    ELSE
      LET target == normalizePath(newPath)
          currentBase == getStorageBasePath(config)
          conflictError == pathsConflict(currentBase, target)
          merged == Repointed(config, target)
      IN  IF currentBase = target
          THEN {Returned(config, file, f, TRUE, NoError, currentBase, "none", TRUE)}
          ELSE IF conflictError # NoConflict
               THEN {Failure(config, file, f, conflictError)}
          ELSE UNION {IF r.threw THEN {Caught(merged, merged, r)}
                      ELSE moveCommit(config, file, r, target) :
                          r \in moveCopy(config, f, target)}

moveData(config, file, f, newPath) ==
    IF newPath = EmptyPath THEN {Failure(config, file, f, ErrEmpty)}
    ELSE
      LET target == normalizePath(newPath)
          currentBase == getStorageBasePath(config)
          conflictError == pathsConflict(currentBase, target)
      IN  IF currentBase = target
          THEN {Returned(config, file, f, TRUE, NoError, currentBase, "none", TRUE)}
          ELSE IF conflictError # NoConflict
               THEN {Failure(config, file, f, conflictError)}
          ELSE UNION {IF r.threw THEN {Caught(config, file, r)}
                      ELSE moveCommit(config, file, r, target) :
                          r \in moveCopy(config, f, target)}

(***************************************************************************)
(* storage-manager-handlers.ts: storage-export-data                        *)
(***************************************************************************)
\* `moyin-data-${new Date().toISOString().replace(/[:.]/g, '-')}`
SnapshotName(stamp) ==
    <<"moyin-data-0", "moyin-data-1", "moyin-data-2", "moyin-data-3">>[stamp + 1]

exportData(config, file, f, targetPath, stamp) ==
    IF targetPath = EmptyPath THEN {Failure(config, file, f, ErrEmpty)}
    ELSE
      LET exportDir == PathJoin(normalizePath(targetPath), <<SnapshotName(stamp)>>)
          exportProjectsDir == PathJoin(exportDir, ProjectsName)
          exportMediaDir == PathJoin(exportDir, MediaName)
          ensured == ensureDir(ensureDir(f, exportProjectsDir), exportMediaDir)
          copiedProjects ==
              copyDir(Start(getProjectDataRoot(config, ensured)),
                      ProjectRootOf(config), exportProjectsDir, "copyProjects")
          copiedMedia ==
              Thrown(copiedProjects) \cup UNION {
                  copyDir([r EXCEPT !.fs = getMediaRoot(config, @)],
                          MediaRootOf(config), exportMediaDir, "copyMedia") :
                      r \in Live(copiedProjects)}
      IN  {IF r.threw THEN Caught(config, file, r)
           ELSE Returned(config, file, r.fs, TRUE, NoError, exportDir, "none", TRUE) :
               r \in copiedMedia}

(***************************************************************************)
(* storage-manager-handlers.ts: storage-import-data                        *)
(***************************************************************************)
\* path.join(os.tmpdir(), `moyin-backup-${Date.now()}`)
BackupDir == PathJoin(TmpDir, <<"moyin-backup">>)

MigrationFlagOf(config) ==
    PathJoin(PathJoin(ProjectRootOf(config), <<"_p">>), <<"_migrated.json">>)

\* step 1: the backup of a live root, when the source replaces it and it
\* is not empty
backupRoot(r, replaced, liveRoot, backupRootDir, label) ==
    IF replaced /\ existsSync(r.fs, liveRoot) /\ readdir(r.fs, liveRoot) # {}
    THEN copyDir(r, liveRoot, backupRootDir, label)
    ELSE {r}

\* step 2: the live root is removed and the source copied in its place
replaceRoot(r, replaced, sourceDir, liveRoot, rmLabel, cpLabel) ==
    IF replaced
    THEN UNION {copyDir(q, sourceDir, liveRoot, cpLabel) :
                    q \in Swallow(r, removeDir(r, liveRoot, rmLabel))}
    ELSE {r}

\* an import that leaves the migration flag in place
clearMigrationFlagSkipped(r, config) == {r}

\* step 3: the migration flag is cleared
clearMigrationFlag(r, config) ==
    IF existsSync(r.fs, MigrationFlagOf(config))
    THEN {[r EXCEPT !.fs = unlinkSync(@, MigrationFlagOf(config))]}
    ELSE {r}

\* await removeDir(backupDir).catch(() => {}): a failed removal is swallowed
removeBackup(r) == Swallow(r, removeDir(r, BackupDir, "rmBackup"))

\* the try block of the import
importAttempt(config, f, source, hasProjects, hasMedia) ==
    LET currentProjectsDir == ProjectRootOf(config)
        currentMediaDir == MediaRootOf(config)
        backedUpProjects ==
            backupRoot(Start(f), hasProjects, currentProjectsDir,
                       PathJoin(BackupDir, ProjectsName), "backupProjects")
        backedUpMedia ==
            Thrown(backedUpProjects) \cup UNION {
                backupRoot(r, hasMedia, currentMediaDir,
                           PathJoin(BackupDir, MediaName), "backupMedia") :
                    r \in Live(backedUpProjects)}
        importedProjects ==
            Thrown(backedUpMedia) \cup UNION {
                replaceRoot(r, hasProjects, PathJoin(source, ProjectsName),
                            currentProjectsDir, "rmProjects", "copyProjects") :
                    r \in Live(backedUpMedia)}
        importedMedia ==
            Thrown(importedProjects) \cup UNION {
                replaceRoot(r, hasMedia, PathJoin(source, MediaName),
                            currentMediaDir, "rmMedia", "copyMedia") :
                    r \in Live(importedProjects)}
        flagCleared ==
            Thrown(importedMedia) \cup UNION {
                clearMigrationFlag(r, config) : r \in Live(importedMedia)}
    IN  Thrown(flagCleared) \cup UNION {removeBackup(r) : r \in Live(flagCleared)}

\* a restore whose failure replaces the exception being handled
restoreRootMasking(r, backupRootDir, liveRoot, label) ==
    IF existsSync(r.fs, backupRootDir)
    THEN {[q EXCEPT !.restored = @ /\ ~q.threw] :
              q \in copyDir([r EXCEPT !.fs = rmTree(@, liveRoot)],
                            backupRootDir, liveRoot, label)}
    ELSE {r}

\* the restore of one live root from its backup, when there is one; a
\* failure of the restore copy is swallowed
restoreRoot(r, backupRootDir, liveRoot, label) ==
    IF existsSync(r.fs, backupRootDir)
    THEN {[q EXCEPT !.threw = FALSE, !.at = r.at, !.restored = @ /\ ~q.threw] :
              q \in copyDir([r EXCEPT !.fs = rmTree(@, liveRoot)],
                            backupRootDir, liveRoot, label)}
    ELSE {r}

\* the catch block of the import: the rollback
importRollback(config, thrown) ==
    LET restoredProjects ==
            restoreRoot([thrown EXCEPT !.threw = FALSE],
                        PathJoin(BackupDir, ProjectsName), ProjectRootOf(config),
                        "restoreProjects")
        restoredMedia ==
            UNION {restoreRoot(r, PathJoin(BackupDir, MediaName), MediaRootOf(config),
                               "restoreMedia") : r \in restoredProjects}
    IN  UNION {removeBackup(r) : r \in restoredMedia}

\* an import that resolves the live roots and prepares the backup directory
\* before it looks at the source
importDataResolvingFirst(config, file, f, sourcePath) ==
    LET resolved == getMediaRoot(config, getProjectDataRoot(config, f))
        prepared == ensureDir(resolved, BackupDir)
    IN  IF sourcePath = EmptyPath THEN {Failure(config, file, prepared, ErrEmpty)}
        ELSE IF /\ ~existsSync(f, PathJoin(normalizePath(sourcePath), ProjectsName))
                /\ ~existsSync(f, PathJoin(normalizePath(sourcePath), MediaName))
             THEN {Failure(config, file, prepared, ErrNoValidData)}
        ELSE {Failure(config, file, prepared, ErrThrown)}

importData(config, file, f, sourcePath) ==
    IF sourcePath = EmptyPath THEN {Failure(config, file, f, ErrEmpty)}
    ELSE
      LET source == normalizePath(sourcePath)
          hasProjects == existsSync(f, PathJoin(source, ProjectsName))
          hasMedia == existsSync(f, PathJoin(source, MediaName))
          resolved == getMediaRoot(config, getProjectDataRoot(config, f))
      IN  IF ~hasProjects /\ ~hasMedia THEN {Failure(config, file, f, ErrNoValidData)}
          ELSE UNION {IF r.threw
                      THEN {Caught(config, file, q) : q \in importRollback(config, r)}
                      ELSE {Returned(config, file, r.fs, TRUE, NoError, EmptyPath,
                                     "none", TRUE)} :
                          r \in importAttempt(config, resolved, source, hasProjects, hasMedia)}

(***************************************************************************)
(* The initial states: the configuration loaded at start-up, the live data *)
(* tree under the resolved base, and the directories around it.            *)
(***************************************************************************)
P(names) == [i \in 1..(2 * Len(names)) |-> IF i % 2 = 1 THEN Sep ELSE names[i \div 2]]

ExternalDir == P(<<"e">>)          \* a data directory of another installation
BlankDir == <<Sep, "e", Blank>>    \* a data directory whose name ends in a blank
ExportTarget == P(<<"x">>)         \* an empty directory
FreshBase == P(<<"f">>)            \* a base that holds nothing yet

MkFs(dirs, files) ==
    [dirs |-> dirs \cup UNION {Ancestors(q) : q \in dirs \cup DOMAIN files},
     files |-> files]

InitialConfigFiles ==
    {NoFile,
     [basePath |-> P(<<"d">>)],
     [projectPath |-> P(<<"d", "projects">>), mediaPath |-> P(<<"d", "media">>)]}

ProjectFileNames == {<<"a.json">>, <<"_p", Sep, "_migrated.json">>}
MediaFileNames == {<<"b.png">>}

InitialFs(config, liveProjects, liveMedia, external) ==
    LET projectRoot == ProjectRootOf(config)
        mediaRoot == MediaRootOf(config)
        live == {PathJoin(projectRoot, n) : n \in liveProjects}
                \cup {PathJoin(mediaRoot, n) : n \in liveMedia}
        ext == (IF external \in {"projects", "both"}
                THEN {PathJoin(PathJoin(ExternalDir, ProjectsName), <<"a.json">>)}
                ELSE {})
               \cup (IF external \in {"media", "both"}
                     THEN {PathJoin(PathJoin(ExternalDir, MediaName), <<"b.png">>)}
                     ELSE {})
    IN  MkFs({RootPath, UserData, TmpDir, ExportTarget, projectRoot, mediaRoot,
              PathJoin(BlankDir, MediaName)},
             [q \in live \cup ext |-> IF q \in live THEN 1 ELSE 2])

Snapshot(config, file, f) == [config |-> config, file |-> file, fs |-> f]

NoCall(before) ==
    [op |-> "none", arg |-> EmptyPath, success |-> TRUE, error |-> NoError,
     path |-> EmptyPath, threwAt |-> "none", restored |-> TRUE, before |-> before]

NoTrip == [pc |-> "off", before |-> << >>, snapshot |-> EmptyPath]

\* let autoCleanInterval: NodeJS.Timeout | null = null
NoTimer == 0

InitData ==
    /\ autoCleanInterval = NoTimer
    /\ timers = {}
    /\ configFile \in InitialConfigFiles
    /\ storageConfig = loadStorageConfig(configFile)
    /\ \E liveProjects \in {{}, {<<"_p", Sep, "_migrated.json">>}, ProjectFileNames},
          liveMedia \in SUBSET MediaFileNames, external \in {"media", "both"} :
            fs = InitialFs(loadStorageConfig(configFile), liveProjects, liveMedia, external)
    /\ now = 0
    /\ ops = 0
    /\ last = NoCall(Snapshot(storageConfig, configFile, fs))

Init == InitData /\ trip = NoTrip

(***************************************************************************)
(* The handler calls.                                                      *)
(***************************************************************************)
LinkInputs ==
    {EmptyPath, ExternalDir, <<"e">>, BlankDir, ExportTarget, P(<<"nx">>)}
LegacyLinkInputs == {PathJoin(FreshBase, ProjectsName)}
MoveInputs ==
    {EmptyPath, P(<<"d">>), <<Sep, "d", Sep>>, <<"d">>, P(<<"d", "s">>), RootPath,
     P(<<"m">>), P(<<"D">>)}
ExportInputs ==
    {EmptyPath, ExportTarget, P(<<"d", "media">>), P(<<"u", "projects">>)}
Snapshots == {PathJoin(ExportTarget, <<SnapshotName(n)>>) : n \in 0..(now - 1)}
ImportInputs ==
    {EmptyPath, ExternalDir, ExportTarget, P(<<"d">>)} \cup Snapshots

Call(op, arg, r) ==
    /\ storageConfig' = r.config
    /\ configFile' = r.file
    /\ fs' = r.fs
    /\ ops' = ops + 1
    /\ last' = [op |-> op, arg |-> arg, success |-> r.success, error |-> r.error,
                path |-> r.path, threwAt |-> r.threwAt, restored |-> r.restored,
                before |-> Snapshot(storageConfig, configFile, fs)]
    /\ UNCHANGED <<autoCleanInterval, timers>>

LinkData ==
    /\ ops < MaxOps
    /\ \E dirPath \in LinkInputs :
          \E r \in linkData(storageConfig, configFile, fs, dirPath) :
              Call("link", dirPath, r)
    /\ UNCHANGED <<now, trip>>

LinkLegacyData ==
    /\ ops < MaxOps
    /\ \E dirPath \in LegacyLinkInputs :
          \E r \in linkLegacyData(storageConfig, configFile, fs, dirPath) :
              Call("link-legacy", dirPath, r)
    /\ UNCHANGED <<now, trip>>

MoveData ==
    /\ ops < MaxOps
    /\ \E newPath \in MoveInputs :
          \E r \in moveData(storageConfig, configFile, fs, newPath) :
              Call("move", newPath, r)
    /\ UNCHANGED <<now, trip>>

ExportData ==
    /\ ops < MaxOps
    /\ \E targetPath \in ExportInputs :
          \E r \in exportData(storageConfig, configFile, fs, targetPath, now) :
              Call("export", targetPath, r)
    /\ now' = now + 1
    /\ UNCHANGED trip

ImportData ==
    /\ ops < MaxOps
    /\ \E sourcePath \in ImportInputs :
          \E r \in importData(storageConfig, configFile, fs, sourcePath) :
              Call("import", sourcePath, r)
    /\ UNCHANGED <<now, trip>>

Next ==
    \/ LinkData
    \/ LinkLegacyData
    \/ MoveData
    \/ ExportData
    \/ ImportData

Spec == Init /\ [][Next]_vars

(***************************************************************************)
(* The round trip: an export of the live data, a switch to a base that     *)
(* holds nothing, and an import of the exported snapshot.                  *)
(***************************************************************************)
InitRoundTrip ==
    /\ InitData
    /\ trip = [pc |-> "start", before |-> << >>, snapshot |-> EmptyPath]

RoundTripExport ==
    /\ trip.pc = "start"
    /\ \E targetPath \in ExportInputs :
          \E r \in exportData(storageConfig, configFile, fs, targetPath, now) :
              /\ Call("export", targetPath, r)
              /\ trip' = IF r.success
                         THEN [pc |-> "exported",
                               before |-> Snapshot(storageConfig, configFile, fs),
                               snapshot |-> r.path]
                         ELSE [trip EXCEPT !.pc = "failed"]
    /\ now' = now + 1

RoundTripFreshBase ==
    /\ trip.pc = "exported"
    /\ \E dirPath \in LegacyLinkInputs :
          \E r \in linkLegacyData(storageConfig, configFile, fs, dirPath) :
              Call("link-legacy", dirPath, r)
    /\ trip' = [trip EXCEPT !.pc = "fresh"]
    /\ UNCHANGED now

RoundTripImport ==
    /\ trip.pc = "fresh"
    /\ \E r \in importData(storageConfig, configFile, fs, trip.snapshot) :
          Call("import", trip.snapshot, r)
    /\ trip' = [trip EXCEPT !.pc = "done"]
    /\ UNCHANGED now

NextRoundTrip ==
    \/ RoundTripExport
    \/ RoundTripFreshBase
    \/ RoundTripImport

SpecRoundTrip == InitRoundTrip /\ [][NextRoundTrip]_vars

(***************************************************************************)
(* Vocabulary of the properties.                                           *)
(***************************************************************************)
\* what a directory holds: its files by relative path, and its directories
Contents(f, root) ==
    [files |-> [rel \in {RelativeTo(q, Loc(root)) : q \in FilesIn(f, Loc(root))} |->
                   f.files[PathJoin(Loc(root), rel)]],
     dirs |-> {RelativeTo(q, Loc(root)) : q \in DirsIn(f, Loc(root))}]

\* the live roots as resolved when the last call was made
ProjectRootBefore == ProjectRootOf(last.before.config)
MediaRootBefore == MediaRootOf(last.before.config)

\* the live roots hold what they held when the last call was made
ProjectRootAsBefore ==
    Contents(fs, ProjectRootBefore) = Contents(last.before.fs, ProjectRootBefore)
MediaRootAsBefore ==
    Contents(fs, MediaRootBefore) = Contents(last.before.fs, MediaRootBefore)

\* every file of the directory when the last call was made is still there,
\* with its content
KeptFiles(root) ==
    \A q \in FilesIn(last.before.fs, Loc(root)) :
        q \in DOMAIN fs.files /\ fs.files[q] = last.before.fs.files[q]

ConfigAsBefore ==
    /\ storageConfig = last.before.config
    /\ configFile = last.before.file

\* the source of the last import held these subdirectories
SourceHad(name) ==
    existsSync(last.before.fs, PathJoin(normalizePath(last.arg), name))

(***************************************************************************)
(* C1.  If the copy of the source's projects throws during an import (the  *)
(* live project root deleted, the media root not yet touched) and the      *)
(* restore copies succeed, the import returns a failure, the live project  *)
(* root holds exactly what it held before the import and so does the live  *)
(* media root.                                                             *)
(***************************************************************************)
ImportCopyFailureRestoresRoots ==
    (last.op = "import" /\ last.threwAt = "copyProjects" /\ last.restored) =>
        /\ ~last.success
        /\ ProjectRootAsBefore
        /\ MediaRootAsBefore

\* the same, for a live project root that held something before the import
ImportCopyFailureRestoresBackedUpRoots ==
    (/\ last.op = "import" /\ last.threwAt = "copyProjects" /\ last.restored
     /\ readdir(last.before.fs, ProjectRootBefore) # {}) =>
        /\ ~last.success
        /\ ProjectRootAsBefore
        /\ MediaRootAsBefore

(***************************************************************************)
(* C2.  An import whose source holds media/ but no projects/ leaves every  *)
(* file and directory under the live project root as it was.               *)
(***************************************************************************)
ImportMediaOnlyLeavesProjects ==
    (last.op = "import" /\ SourceHad(MediaName) /\ ~SourceHad(ProjectsName)) =>
        ProjectRootAsBefore

(***************************************************************************)
(* C3.  Round trip: after an export, a switch to a base that holds nothing *)
(* and a successful import of the exported snapshot, the live roots hold   *)
(* the files, by relative path and content, that the live roots held       *)
(* before the export.                                                      *)
(***************************************************************************)
MigrationFlagName == <<"_p", Sep, "_migrated.json">>

ExportedProjects == Contents(trip.before.fs, ProjectRootOf(trip.before.config)).files
ExportedMedia == Contents(trip.before.fs, MediaRootOf(trip.before.config)).files
ImportedProjects == Contents(fs, ProjectRootOf(storageConfig)).files
ImportedMedia == Contents(fs, MediaRootOf(storageConfig)).files

RoundTripDone == trip.pc = "done" /\ last.op = "import" /\ last.success

RoundTripReproducesTree ==
    RoundTripDone =>
        /\ ImportedProjects = ExportedProjects
        /\ ImportedMedia = ExportedMedia

\* C3 as amended: the same but for the migration flag, which the imported
\* project root never holds
RoundTripReproducesTreeButFlag ==
    RoundTripDone =>
        /\ ImportedProjects =
               [rel \in DOMAIN ExportedProjects \ {MigrationFlagName} |->
                   ExportedProjects[rel]]
        /\ ImportedMedia = ExportedMedia

RoundTripWithFlagDone ==
    /\ RoundTripDone
    /\ MigrationFlagName \in DOMAIN ExportedProjects
    /\ <<"a.json">> \in DOMAIN ImportedProjects
    /\ <<"b.png">> \in DOMAIN ImportedMedia

(***************************************************************************)
(* C4.  When a move returns a failure, the configuration, in memory and on *)
(* disk, is as before the call, and every file that was under the old      *)
(* project root or the old media root is still there with its content.     *)
(***************************************************************************)
MoveFailureKeepsOldBase ==
    (last.op = "move" /\ ~last.success) =>
        /\ ConfigAsBefore
        /\ KeptFiles(ProjectRootBefore)
        /\ KeptFiles(MediaRootBefore)

\* a move that failed while copying the media, with project files already
\* copied to the target
MoveFailedPartWay ==
    /\ last.op = "move" /\ ~last.success /\ last.threwAt = "copyMedia"
    /\ FilesIn(last.before.fs, Loc(ProjectRootBefore)) # {}
    /\ FilesIn(fs, Loc(PathJoin(normalizePath(last.arg), ProjectsName))) # {}
    /\ Loc(normalizePath(last.arg)) # Loc(getStorageBasePath(last.before.config))

(***************************************************************************)
(* C5.  A move to a descendant of the current base path, or to an ancestor *)
(* of it, returns a path-conflict failure and has created, copied and      *)
(* deleted nothing and left the configuration alone.                       *)
(***************************************************************************)
MoveTargetNested ==
    LET base == Loc(getStorageBasePath(last.before.config))
        target == Loc(normalizePath(last.arg))
    IN  /\ last.op = "move" /\ last.arg # EmptyPath
        /\ Inside(target, base) \/ Inside(base, target)

MoveNestedIsConflict ==
    MoveTargetNested =>
        /\ ~last.success
        /\ last.error \in {DestInsideSource, SourceInsideDest}
        /\ fs = last.before.fs
        /\ ConfigAsBefore

(***************************************************************************)
(* C6.  A move to a path that resolves to the directory of the current     *)
(* base path returns success, copies and deletes no file and leaves the    *)
(* configuration alone.                                                    *)
(***************************************************************************)
MoveTargetIsBase ==
    /\ last.op = "move" /\ last.arg # EmptyPath
    /\ Loc(normalizePath(last.arg)) = Loc(getStorageBasePath(last.before.config))

MoveToBaseIsNoop ==
    MoveTargetIsBase =>
        /\ last.success
        /\ fs.files = last.before.fs.files
        /\ ConfigAsBefore

(***************************************************************************)
(* C7.  After a successful link(path) the configuration has basePath =     *)
(* path (normalized), empty legacy projectPath and mediaPath, and the      *)
(* resolved project and media roots are path/projects and path/media.      *)
(***************************************************************************)
LinkRepointsRoots ==
    (last.op = "link" /\ last.success) =>
        /\ storageConfig.basePath = normalizePath(last.arg)
        /\ storageConfig.projectPath = EmptyPath
        /\ storageConfig.mediaPath = EmptyPath
        /\ Loc(ProjectRootOf(storageConfig)) = Loc(PathJoin(last.arg, ProjectsName))
        /\ Loc(MediaRootOf(storageConfig)) = Loc(PathJoin(last.arg, MediaName))

(***************************************************************************)
(* C8.  A link creates, modifies and deletes no file and no directory,     *)
(* whether it succeeds or fails: it writes the configuration file only.    *)
(***************************************************************************)
LinkWritesConfigOnly ==
    last.op = "link" => fs = last.before.fs

LinkRepointed ==
    /\ last.op = "link" /\ last.success
    /\ storageConfig # last.before.config
    /\ configFile = storageConfig

(***************************************************************************)
(* C9.  A link returns a failure when the path is empty, when it does not  *)
(* exist and when it holds neither projects/ nor media/, and a link that   *)
(* returns a failure leaves the configuration, in memory and on disk, as   *)
(* it was.                                                                 *)
(***************************************************************************)
LinkTargetInvalid ==
    \/ last.arg = EmptyPath
    \/ ~existsSync(last.before.fs, normalizePath(last.arg))
    \/ ~SourceHad(ProjectsName) /\ ~SourceHad(MediaName)

LinkValidates ==
    last.op = "link" =>
        /\ LinkTargetInvalid => ~last.success
        /\ ~last.success => ConfigAsBefore

LinkRefusedNoValidData ==
    /\ last.op = "link" /\ ~last.success /\ last.error = ErrNoValidData
    /\ existsSync(last.before.fs, normalizePath(last.arg))
    /\ last.before.config.projectPath # EmptyPath

(***************************************************************************)
(* C10.  An export never changes the configuration and never creates,      *)
(* modifies or deletes a file or directory under the live project root or  *)
(* the live media root, whether it succeeds or fails part-way.             *)
(***************************************************************************)
ExportLeavesLiveDataAlone ==
    last.op = "export" =>
        /\ ConfigAsBefore
        /\ ProjectRootAsBefore
        /\ MediaRootAsBefore

(***************************************************************************)
(* storage-manager-handlers.ts: validateDataDirInternal                    *)
(* (storage-validate-data-dir).  The result is the value returned, with    *)
(* the filesystem the call leaves behind.                                  *)
(***************************************************************************)
\* the names f with f.endsWith('.json'), and those with name.startsWith('.')
JsonNames == {"a.json", "c.json", "x.json", "_migrated.json"}
DotNames == {".trash"}
EndsWithJson(name) == name[Len(name)] \in JsonNames
StartsWithDot(name) == name[1] \in DotNames

PerProjectName == <<"_p">>

Max(a, b) == IF a >= b THEN a ELSE b

\* { valid: true, projectCount, mediaCount }
Valid(f, projectCount, mediaCount) ==
    [fs |-> f,
     result |-> [valid |-> TRUE, projectCount |-> projectCount, mediaCount |-> mediaCount]]

\* { valid: false, error }
Invalid(f, error) == [fs |-> f, result |-> [valid |-> FALSE, error |-> error]]

\* fs.readdirSync throws on a path that is not a directory
readdirSyncThrows(f, p) == ~IsDir(f, p)

\* a validation that resolves the roots of the directory, which creates them
validateResolvingRoots(f, dirPath) ==
    IF dirPath = EmptyPath THEN Invalid(f, ErrEmpty)
    ELSE
      LET target == normalizePath(dirPath)
          resolved == ensureDir(ensureDir(f, PathJoin(target, ProjectsName)),
                                PathJoin(target, MediaName))
      IN  IF ~existsSync(f, target) THEN Invalid(f, ErrNotFound)
          ELSE Invalid(resolved, ErrNoValidData)

\* a validation that looks, as a link does, for projects/ and media/ only
validateByExistence(f, dirPath) ==
    IF dirPath = EmptyPath THEN Invalid(f, ErrEmpty)
    ELSE
      LET target == normalizePath(dirPath)
          projectsDir == PathJoin(target, ProjectsName)
          mediaDir == PathJoin(target, MediaName)
      IN  IF ~existsSync(f, target) THEN Invalid(f, ErrNotFound)
          ELSE IF ~existsSync(f, projectsDir) /\ ~existsSync(f, mediaDir)
               THEN Invalid(f, ErrNoValidData)
          ELSE Valid(f, Cardinality(readdir(f, projectsDir)),
                     Cardinality(readdir(f, mediaDir)))

\* a validation that does not know the per-project layout
validateFlatOnly(f, dirPath) ==
    IF dirPath = EmptyPath THEN Invalid(f, ErrEmpty)
    ELSE
      LET target == normalizePath(dirPath)
          projectsDir == PathJoin(target, ProjectsName)
          mediaDir == PathJoin(target, MediaName)
          projectCount ==
              Cardinality({e \in readdir(f, projectsDir) : EndsWithJson(PathBasename(e))})
          mediaCount == Cardinality(readdir(f, mediaDir))
      IN  IF ~existsSync(f, target) THEN Invalid(f, ErrNotFound)
          ELSE IF projectCount = 0 /\ mediaCount = 0 THEN Invalid(f, ErrNoValidData)
          ELSE Valid(f, projectCount, mediaCount)

validateDataDirInternal(f, dirPath) ==
    IF dirPath = EmptyPath THEN Invalid(f, ErrEmpty)
    ELSE
      LET target == normalizePath(dirPath)
          projectsDir == PathJoin(target, ProjectsName)
          mediaDir == PathJoin(target, MediaName)
          perProjectDir == PathJoin(projectsDir, PerProjectName)
          files == readdir(f, projectsDir)
          flatCount == Cardinality({e \in files : EndsWithJson(PathBasename(e))})
          projectDirs == readdir(f, perProjectDir)
          dirCount ==
              Cardinality({d \in projectDirs :
                              IsDir(f, d) /\ ~StartsWithDot(PathBasename(d))})
          projectCount ==
              IF ~existsSync(f, projectsDir) THEN 0
              ELSE IF existsSync(f, perProjectDir) /\ dirCount > 0
                   THEN Max(flatCount, dirCount)
              ELSE flatCount
          mediaCount ==
              IF existsSync(f, mediaDir) THEN Cardinality(readdir(f, mediaDir)) ELSE 0
          thrown ==
              \/ existsSync(f, projectsDir) /\ readdirSyncThrows(f, projectsDir)
              \/ existsSync(f, perProjectDir) /\ readdirSyncThrows(f, perProjectDir)
              \/ existsSync(f, mediaDir) /\ readdirSyncThrows(f, mediaDir)
      IN  IF ~existsSync(f, target) THEN Invalid(f, ErrNotFound)
          ELSE IF thrown THEN Invalid(f, ErrThrown)
          ELSE IF projectCount = 0 /\ mediaCount = 0 THEN Invalid(f, ErrNoValidData)
          ELSE Valid(f, projectCount, mediaCount)

(***************************************************************************)
(* Validation of a candidate directory: the directory /v holds any of the  *)
(* layouts below; it is validated, and validated once more.                *)
(***************************************************************************)
ValidateDir == P(<<"v">>)
PlainFile == P(<<"w">>)

\* the entries of projects/: flat project files, another file, a directory
FlatFileNames == {<<"a.json">>, <<"notes.txt">>}
FlatDirNames == {<<"c.json">>}
\* the entries of projects/_p/: per-project directories, a hidden directory,
\* a file
NestedDirNames == {<<"p1">>, <<"p2">>, <<".trash">>}
NestedFileNames == {<<"x.json">>}
Kinds == {"absent", "file", "dir"}

InitialValidateFs(projects, flat, perProject, nested, media, mediaEntries) ==
    LET projectsDir == PathJoin(ValidateDir, ProjectsName)
        perProjectDir == PathJoin(projectsDir, PerProjectName)
        mediaDir == PathJoin(ValidateDir, MediaName)
        dirs ==
            {RootPath, UserData, TmpDir, ValidateDir}
            \cup (IF projects = "dir" THEN {projectsDir} ELSE {})
            \cup {PathJoin(projectsDir, n) : n \in flat \cap FlatDirNames}
            \cup (IF perProject = "dir" THEN {perProjectDir} ELSE {})
            \cup {PathJoin(perProjectDir, n) : n \in nested \cap NestedDirNames}
            \cup (IF media = "dir" THEN {mediaDir} ELSE {})
        files ==
            {PlainFile}
            \cup (IF projects = "file" THEN {projectsDir} ELSE {})
            \cup {PathJoin(projectsDir, n) : n \in flat \cap FlatFileNames}
            \cup (IF perProject = "file" THEN {perProjectDir} ELSE {})
            \cup {PathJoin(perProjectDir, n) : n \in nested \cap NestedFileNames}
            \cup (IF media = "file" THEN {mediaDir} ELSE {})
            \cup {PathJoin(mediaDir, n) : n \in mediaEntries}
    IN  MkFs(dirs, [q \in files |-> 1])

InitValidate ==
    /\ autoCleanInterval = NoTimer
    /\ timers = {}
    /\ configFile = NoFile
    /\ storageConfig = loadStorageConfig(configFile)
    /\ \E projects \in Kinds, perProject \in Kinds, media \in Kinds,
          flat \in SUBSET (FlatFileNames \cup FlatDirNames),
          nested \in SUBSET (NestedDirNames \cup NestedFileNames),
          mediaEntries \in SUBSET MediaFileNames :
            /\ projects # "dir" => flat = {} /\ perProject = "absent"
            /\ perProject # "dir" => nested = {}
            /\ media # "dir" => mediaEntries = {}
            /\ fs = InitialValidateFs(projects, flat, perProject, nested, media,
                                      mediaEntries)
    /\ now = 0
    /\ ops = 0
    /\ last = NoCall(Snapshot(storageConfig, configFile, fs))
    /\ trip = [pc |-> "start"]

ValidateInputs == {EmptyPath, ValidateDir, <<"v">>, P(<<"nx">>), PlainFile}

\* one call of storage-validate-data-dir
Validated(dirPath) ==
    LET r == validateDataDirInternal(fs, dirPath)
    IN  /\ fs' = r.fs
        /\ last' = [op |-> "validate", arg |-> dirPath, result |-> r.result,
                    before |-> Snapshot(storageConfig, configFile, fs)]
        /\ UNCHANGED <<storageConfig, configFile, now, ops, autoCleanInterval, timers>>

ValidateDataDir ==
    /\ trip.pc = "start"
    /\ \E dirPath \in ValidateInputs :
          /\ Validated(dirPath)
          /\ trip' = [pc |-> "validated", arg |-> dirPath,
                      result |-> validateDataDirInternal(fs, dirPath).result]

ValidateDataDirAgain ==
    /\ trip.pc = "validated"
    /\ Validated(trip.arg)
    /\ trip' = [trip EXCEPT !.pc = "again"]

NextValidate ==
    \/ ValidateDataDir
    \/ ValidateDataDirAgain

SpecValidate == InitValidate /\ [][NextValidate]_vars

\* the directory the last validation looked at, and what it held
ValidatedDir == normalizePath(last.arg)
ValidatedEntries(sub) == readdir(last.before.fs, PathJoin(ValidatedDir, sub))
ValidatedHasEntry(sub) ==
    IsDir(last.before.fs, PathJoin(ValidatedDir, sub)) /\ ValidatedEntries(sub) # {}
ValidatedNested == PathJoin(ProjectsName, PerProjectName)
ValidatedWithoutCounts == DOMAIN last.result = {"valid", "error"}

ValidateAcceptsEveryEntry ==
    last.op = "validate" =>
        /\ (\/ last.arg = EmptyPath
            \/ ~existsSync(last.before.fs, ValidatedDir)
            \/ ~ValidatedHasEntry(ProjectsName) /\ ~ValidatedHasEntry(MediaName))
           => ~last.result.valid /\ ValidatedWithoutCounts
        /\ (/\ last.arg # EmptyPath
            /\ IsDir(last.before.fs, ValidatedDir)
            /\ ValidatedHasEntry(ProjectsName) \/ ValidatedHasEntry(MediaName))
           => last.result.valid

\* what a validation counts: the entries of projects/ named *.json, the
\* directories of projects/_p/ whose name does not start with a dot, and the
\* entries of media/
ValidatedJsonEntries ==
    {e \in ValidatedEntries(ProjectsName) : EndsWithJson(PathBasename(e))}
ValidatedVisibleDirs ==
    {d \in ValidatedEntries(ValidatedNested) :
        IsDir(last.before.fs, d) /\ ~StartsWithDot(PathBasename(d))}
ValidatedUnreadable ==
    \E sub \in {ProjectsName, ValidatedNested, MediaName} :
        IsFile(last.before.fs, PathJoin(ValidatedDir, sub))

\* C12 as amended: valid=true exactly when the path is not empty, exists,
\* none of projects/, projects/_p and media/ is a file, and there is
\* something to count; valid=false comes with an error and no counts
ValidateAcceptsCountedData ==
    last.op = "validate" =>
        /\ last.result.valid <=>
               /\ last.arg # EmptyPath
               /\ existsSync(last.before.fs, ValidatedDir)
               /\ ~ValidatedUnreadable
               /\ \/ ValidatedJsonEntries # {}
                  \/ ValidatedVisibleDirs # {}
                  \/ ValidatedEntries(MediaName) # {}
        /\ ~last.result.valid => ValidatedWithoutCounts

ValidateRefusedUncountedEntries ==
    /\ last.op = "validate"
    /\ ~last.result.valid /\ last.result.error = ErrNoValidData
    /\ ValidatedHasEntry(ProjectsName)

(***************************************************************************)
(* C13.  When a validation returns valid=true, projectCount is the larger  *)
(* of the number of files in projects/ and the number of directories in    *)
(* projects/_p/, and mediaCount is the number of entries in media/, 0 when *)
(* there is no media/.                                                     *)
(***************************************************************************)
ValidateCountsFilesAndDirs ==
    (last.op = "validate" /\ last.result.valid) =>
        /\ last.result.projectCount =
               Max(Cardinality({e \in ValidatedEntries(ProjectsName) :
                                   IsFile(last.before.fs, e)}),
                   Cardinality({d \in ValidatedEntries(ValidatedNested) :
                                   IsDir(last.before.fs, d)}))
        /\ last.result.mediaCount = Cardinality(ValidatedEntries(MediaName))

\* C13 as amended: projectCount is the larger of the number of entries of
\* projects/ named *.json and the number of directories of projects/_p/
\* whose name does not start with a dot
ValidateCountsJsonAndVisibleDirs ==
    (last.op = "validate" /\ last.result.valid) =>
        /\ last.result.projectCount =
               Max(Cardinality(ValidatedJsonEntries), Cardinality(ValidatedVisibleDirs))
        /\ last.result.mediaCount = Cardinality(ValidatedEntries(MediaName))

ValidateCountedNestedLayout ==
    /\ last.op = "validate" /\ last.result.valid
    /\ last.result.projectCount = 2
    /\ Cardinality(ValidatedJsonEntries) = 1
    /\ last.result.mediaCount = 0

(***************************************************************************)
(* Resolution of the base path over the values a StorageConfig can hold:   *)
(* the configuration file is loaded with any of the values below, and the  *)
(* base path is resolved.                                                  *)
(***************************************************************************)
LegacyProjects == P(<<"o", "projects">>)

BasePathValues ==
    {EmptyPath, <<Blank>>, P(<<"d">>), BlankDir, <<Blank, Sep, "d">>, <<"d">>,
     <<Sep, "d", Sep>>}
ProjectPathValues ==
    {EmptyPath, <<Blank>>, LegacyProjects, <<"o", Sep, "projects">>,
     LegacyProjects \o <<Blank>>}
MediaPathValues == {EmptyPath, P(<<"o", "media">>)}

InitResolve ==
    /\ autoCleanInterval = NoTimer
    /\ timers = {}
    /\ \E basePath \in BasePathValues, projectPath \in ProjectPathValues,
          mediaPath \in MediaPathValues :
            configFile = [basePath |-> basePath, projectPath |-> projectPath,
                          mediaPath |-> mediaPath]
    /\ storageConfig = loadStorageConfig(configFile)
    /\ fs = MkFs({RootPath, UserData, TmpDir}, [q \in {} |-> 1])
    /\ now = 0
    /\ ops = 0
    /\ last = NoCall(Snapshot(storageConfig, configFile, fs))
    /\ trip = NoTrip

\* getStorageBasePath() on the loaded configuration
ResolveBasePath ==
    /\ last.op = "none"
    /\ last' = [op |-> "resolve", result |-> getStorageBasePath(storageConfig),
                before |-> Snapshot(storageConfig, configFile, fs)]
    /\ UNCHANGED <<storageConfig, configFile, fs, now, ops, trip, autoCleanInterval, timers>>

NextResolve == ResolveBasePath

SpecResolve == InitResolve /\ [][NextResolve]_vars

(***************************************************************************)
(* C14.  The resolved base path is the normalized basePath when basePath   *)
(* is not empty, else the parent directory of the legacy projectPath when  *)
(* that is not empty, else the default application-data directory; a path  *)
(* is returned for every configuration.                                    *)
(***************************************************************************)
ResolveFollowsFallback ==
    last.op = "resolve" =>
        LET config == last.before.config
        IN  /\ IsAbsolute(last.result)
            /\ config.basePath # EmptyPath =>
                   last.result = normalizePath(config.basePath)
            /\ (config.basePath = EmptyPath /\ config.projectPath # EmptyPath) =>
                   last.result = PathDirname(normalizePath(config.projectPath))
            /\ (config.basePath = EmptyPath /\ config.projectPath = EmptyPath) =>
                   last.result = UserData

(***************************************************************************)
(* file-ops.ts: the cache directories.  Under them a file's content is     *)
(* the record [size, mtime] that fs.promises.stat reads; times are in days.*)
(***************************************************************************)
\* path-utils.ts getCacheDirs()
getCacheDirs ==
    <<PathJoin(UserData, <<"Cache">>), PathJoin(UserData, <<"Code Cache">>),
      PathJoin(UserData, <<"GPUCache">>)>>

CacheDirs == {getCacheDirs[i] : i \in DOMAIN getCacheDirs}

RECURSIVE getDirectorySize(_, _, _)
RECURSIVE sizeOfEntries(_, _, _)
\* the loop of getDirectorySize over the entries of a directory
sizeOfEntries(f, entries, broken) ==
    IF entries = {} THEN 0
    ELSE LET fullPath == CHOOSE e \in entries : TRUE
         IN  (IF IsDir(f, fullPath) THEN getDirectorySize(f, fullPath, broken)
              ELSE f.files[fullPath].size)
             + sizeOfEntries(f, entries \ {fullPath}, broken)

\* file-ops getDirectorySize.  The whole loop is inside one try/catch that
\* returns 0: a directory that cannot be read counts 0, and so does a
\* directory one of whose entries cannot be stat-ed (broken: a dangling
\* link, an entry removed since readdir), whatever else it holds.  A
\* subdirectory is measured by a call of its own, which never throws.
getDirectorySize(f, dirPath, broken) ==
    IF ~IsDir(f, dirPath) THEN 0
    ELSE IF \E e \in readdir(f, Loc(dirPath)) : ~IsDir(f, e) /\ e \in broken THEN 0
    ELSE sizeOfEntries(f, readdir(f, Loc(dirPath)), broken)

\* fs.promises.rmdir of an empty directory
rmdir(f, p) == [f EXCEPT !.dirs = @ \ {Loc(p)}]

RECURSIVE deleteOldFiles(_, _, _, _)
RECURSIVE deleteOldEntries(_, _, _, _, _)
\* the loop of deleteOldFiles over the entries of a directory; the unlink
\* or rmdir of an entry in stuck fails, and the failure is swallowed
deleteOldEntries(f, entries, cutoffTime, stuck, cleared) ==
    IF entries = {} THEN [fs |-> f, cleared |-> cleared]
    ELSE LET fullPath == CHOOSE e \in entries : TRUE
             rest == entries \ {fullPath}
         IN  IF IsDir(f, fullPath)
             THEN LET sub == deleteOldFiles(f, fullPath, cutoffTime, stuck)
                      remaining == readdir(sub.fs, fullPath)
                      after == IF remaining = {} /\ fullPath \notin stuck
                               THEN rmdir(sub.fs, fullPath)
                               ELSE sub.fs
                  IN  deleteOldEntries(after, rest, cutoffTime, stuck,
                                       cleared + sub.cleared)
             ELSE LET stat == f.files[fullPath]
                  IN  IF stat.mtime < cutoffTime
                      THEN deleteOldEntries(IF fullPath \in stuck THEN f
                                            ELSE unlinkSync(f, fullPath),
                                            rest, cutoffTime, stuck, cleared + stat.size)
                      ELSE deleteOldEntries(f, rest, cutoffTime, stuck, cleared)

\* file-ops deleteOldFiles: a directory that cannot be read clears nothing
deleteOldFiles(f, dirPath, cutoffTime, stuck) ==
    IF ~IsDir(f, dirPath) THEN [fs |-> f, cleared |-> 0]
    ELSE deleteOldEntries(f, readdir(f, Loc(dirPath)), cutoffTime, stuck, 0)

\* the age-based loop of clearCache over the cache directories
RECURSIVE clearOldIn(_, _, _, _, _)
clearOldIn(f, dirs, cutoff, stuck, cleared) ==
    IF dirs = << >> THEN [fs |-> f, cleared |-> cleared]
    ELSE LET done == deleteOldFiles(f, Head(dirs), cutoff, stuck)
         IN  clearOldIn(done.fs, Tail(dirs), cutoff, stuck, cleared + done.cleared)

\* the wholesale loop of clearCache: measure, remove (a failure of the
\* removal is swallowed), create again
RECURSIVE clearAllIn(_, _, _)
clearAllIn(r, dirs, cleared) ==
    IF dirs = << >> THEN {[fs |-> r.fs, cleared |-> cleared]}
    ELSE UNION {clearAllIn([q EXCEPT !.fs = ensureDir(@, Head(dirs))], Tail(dirs),
                           cleared + getDirectorySize(r.fs, Head(dirs), {})) :
                    q \in Swallow(r, removeDir(r, Head(dirs), "rmCache"))}

\* clearCache(olderThanDays?): options holds olderThanDays when it is given
HasThreshold(options) ==
    "olderThanDays" \in DOMAIN options /\ options.olderThanDays > 0

clearCache(f, options, clock, stuck) ==
    IF HasThreshold(options)
    THEN {clearOldIn(f, getCacheDirs, clock - options.olderThanDays, stuck, 0)}
    ELSE clearAllIn(Start(f), getCacheDirs, 0)

\* storage-get-cache-size: { total, details }
getCacheSize(f, broken) ==
    LET details == [i \in DOMAIN getCacheDirs |->
                       [path |-> getCacheDirs[i],
                        size |-> getDirectorySize(f, getCacheDirs[i], broken)]]
    IN  [total |-> details[1].size + details[2].size + details[3].size,
         details |-> details]

(***************************************************************************)
(* The cache: the three cache directories hold any of the trees below, on  *)
(* the day Today; the cache is cleared, or measured, once.                 *)
(***************************************************************************)
Today == 3

CacheDir == getCacheDirs[1]
CodeCacheDir == getCacheDirs[2]
GpuCacheDir == getCacheDirs[3]
CacheSubDir == PathJoin(CacheDir, <<"sub">>)
CacheEmptyDir == PathJoin(CacheDir, <<"empty">>)
OldFile == PathJoin(CacheDir, <<"old.bin">>)
EdgeFile == PathJoin(CacheDir, <<"edge.bin">>)
NewFile == PathJoin(CacheDir, <<"new.bin">>)
DeepOldFile == PathJoin(CacheSubDir, <<"deep.bin">>)
DeepNewFile == PathJoin(CacheSubDir, <<"fresh.bin">>)
CodeFile == PathJoin(CodeCacheDir, <<"c.bin">>)
LiveFile == PathJoin(PathJoin(UserData, ProjectsName), <<"a.json">>)

\* what stat reads of each file
StatOf ==
    (OldFile :> [size |-> 2, mtime |-> 0])
    @@ (EdgeFile :> [size |-> 1, mtime |-> Today - 1])
    @@ (NewFile :> [size |-> 1, mtime |-> Today])
    @@ (DeepOldFile :> [size |-> 4, mtime |-> 0])
    @@ (DeepNewFile :> [size |-> 1, mtime |-> Today])
    @@ (CodeFile :> [size |-> 8, mtime |-> 1])
    @@ (LiveFile :> [size |-> 1, mtime |-> 0])

CacheFileChoices == {OldFile, EdgeFile, NewFile, DeepOldFile, DeepNewFile}

InitialCacheFs(cacheFiles, cacheDirs, codeFiles, gpu) ==
    MkFs({RootPath, UserData, TmpDir, PathJoin(UserData, ProjectsName),
          PathJoin(UserData, MediaName)} \cup cacheDirs \cup gpu,
         [q \in cacheFiles \cup codeFiles \cup {LiveFile} |-> StatOf[q]])

InitCache ==
    /\ autoCleanInterval = NoTimer
    /\ timers = {}
    /\ configFile = NoFile
    /\ storageConfig = loadStorageConfig(configFile)
    /\ \E cacheFiles \in SUBSET CacheFileChoices,
          cacheDirs \in SUBSET {CacheDir, CacheEmptyDir, CacheSubDir},
          codeFiles \in SUBSET {CodeFile}, gpu \in SUBSET {GpuCacheDir} :
            fs = InitialCacheFs(cacheFiles, cacheDirs, codeFiles, gpu)
    /\ now = Today
    /\ ops = 0
    /\ last = NoCall(Snapshot(storageConfig, configFile, fs))
    /\ trip = NoTrip

\* storage-clear-cache: options?.olderThanDays
NoOptions == [given |-> FALSE]
Thresholds == {0 - 1, 0, 1, 2}
ClearOptions ==
    {NoOptions} \cup {[given |-> TRUE, olderThanDays |-> n] : n \in Thresholds}
\* the entries whose unlink or rmdir fails
StuckSets == {{}, {OldFile}, {CacheSubDir}}

\* storage-clear-cache
ClearCache ==
    /\ last.op = "none"
    /\ \E options \in ClearOptions, stuck \in StuckSets :
          \E r \in clearCache(fs, options, now, stuck) :
              /\ fs' = r.fs
              /\ last' = [op |-> "clear-cache", arg |-> options, success |-> TRUE,
                          clearedBytes |-> r.cleared,
                          before |-> Snapshot(storageConfig, configFile, fs)]
    /\ UNCHANGED <<storageConfig, configFile, now, ops, trip, autoCleanInterval, timers>>

\* the entries of the cache whose stat throws
BrokenSets == {{}, {EdgeFile}, {DeepNewFile}}

\* storage-get-cache-size
GetCacheSize ==
    /\ last.op = "none"
    /\ \E broken \in BrokenSets :
          last' = [op |-> "get-cache-size", result |-> getCacheSize(fs, broken),
                   broken |-> broken \cap DOMAIN fs.files,
                   before |-> Snapshot(storageConfig, configFile, fs)]
    /\ UNCHANGED <<storageConfig, configFile, fs, now, ops, trip, autoCleanInterval, timers>>

NextCache ==
    \/ ClearCache
    \/ GetCacheSize

SpecCache == InitCache /\ [][NextCache]_vars

\* the files and directories of the cache when the last call was made
InCache(q) == \E d \in CacheDirs : WithinTree(q, d)
CacheFilesBefore == {q \in DOMAIN last.before.fs.files : InCache(q)}
CacheDirsBefore == {q \in last.before.fs.dirs : InCache(q)}
KeptAsBefore(q) ==
    q \in DOMAIN fs.files /\ fs.files[q] = last.before.fs.files[q]

(***************************************************************************)
(* C15.  After a clear of the cache with no age threshold every cache      *)
(* directory exists and is empty, whatever it held and whether it existed, *)
(* and the number returned is the total size of the cache directories      *)
(* before the clear.                                                       *)
(***************************************************************************)
WholesaleClearEmptiesCache ==
    (last.op = "clear-cache" /\ ~last.arg.given) =>
        /\ \A d \in CacheDirs : IsDir(fs, d) /\ readdir(fs, d) = {}
        /\ last.clearedBytes = getCacheSize(last.before.fs, {}).total

(***************************************************************************)
(* C16.  For every age threshold N given to a clear of the cache, every    *)
(* file of the cache whose modification time is at or after now - N days   *)
(* is still there with its content when the call returns: a file is        *)
(* deleted only if it is older.                                            *)
(***************************************************************************)
AgeClearKeepsNewerFiles ==
    (last.op = "clear-cache" /\ last.arg.given) =>
        \A q \in CacheFilesBefore :
            last.before.fs.files[q].mtime >= now - last.arg.olderThanDays =>
                KeptAsBefore(q)

\* the same for the age thresholds N > 0; a threshold that is not positive
\* is taken as no threshold, and the clear is wholesale
PositiveAgeClearKeepsNewerFiles ==
    (last.op = "clear-cache" /\ last.arg.given /\ last.arg.olderThanDays > 0) =>
        \A q \in CacheFilesBefore :
            last.before.fs.files[q].mtime >= now - last.arg.olderThanDays =>
                KeptAsBefore(q)

(***************************************************************************)
(* C17.  An age-based clear removes a directory only if the file deletions *)
(* of this call left it empty: never one that still holds a file, never    *)
(* one from which it deleted nothing, never a cache directory itself.      *)
(***************************************************************************)
AgeClearRemovesOnlyEmptiedDirs ==
    (last.op = "clear-cache" /\ HasThreshold(last.arg)) =>
        \A d \in CacheDirsBefore \ fs.dirs :
            /\ d \notin CacheDirs
            /\ FilesIn(fs, d) = {}
            /\ FilesIn(last.before.fs, d) # {}

(***************************************************************************)
(* file-ops: scheduleAutoClean, called when the application is ready and   *)
(* by storage-update-config.  timers is the set of intervals the event     *)
(* loop holds armed; autoCleanInterval is the one handle the module keeps. *)
(***************************************************************************)
MaxSchedules == 2
MaxDaysOn == 1

\* 24 * 60 * 60 * 1000 ms, in hours
AutoCleanPeriod == 24

\* setInterval(() => clearCache(days), 24h): the armed interval
Timer(handle, days) == [id |-> handle, days |-> days, period |-> AutoCleanPeriod]

\* clearInterval(autoCleanInterval) when a handle is kept
clearInterval(armed, interval) ==
    IF interval # NoTimer THEN {t \in armed : t.id # interval} ELSE armed

\* storageConfig.autoCleanDays || DEFAULT_STORAGE_CONFIG.autoCleanDays
autoCleanDaysOf(config) ==
    IF config.autoCleanDays # 0 THEN config.autoCleanDays
    ELSE DEFAULT_STORAGE_CONFIG.autoCleanDays

\* scheduleAutoClean that arms a new interval without cancelling the old one
scheduleAutoCleanKeepingOld(config, interval, armed, f, clock, handle, stuck) ==
    IF config.autoCleanEnabled
    THEN {[interval |-> handle,
           timers |-> armed \cup {Timer(handle, autoCleanDaysOf(config))},
           fs |-> c.fs, started |-> <<autoCleanDaysOf(config)>>] :
            c \in clearCache(f, [given |-> TRUE, olderThanDays |-> autoCleanDaysOf(config)], clock, stuck)}
    ELSE {[interval |-> NoTimer, timers |-> armed, fs |-> f, started |-> << >>]}

\* scheduleAutoClean that arms the interval without clearing at once
scheduleAutoCleanArmingOnly(config, interval, armed, f, clock, handle, stuck) ==
    IF config.autoCleanEnabled
    THEN {[interval |-> handle,
           timers |-> clearInterval(armed, interval) \cup {Timer(handle, autoCleanDaysOf(config))},
           fs |-> f, started |-> << >>]}
    ELSE {[interval |-> NoTimer, timers |-> clearInterval(armed, interval), fs |-> f,
           started |-> << >>]}

\* scheduleAutoClean(): cancel the kept interval; when auto-clean is enabled
\* clear once at once and arm a daily interval.  The set of outcomes, one
\* per outcome of the clear; started is the sequence of the thresholds of
\* the clears the call has started.
scheduleAutoClean(config, interval, armed, f, clock, handle, stuck) ==
    IF config.autoCleanEnabled
    THEN {[interval |-> handle,
           timers |-> clearInterval(armed, interval) \cup {Timer(handle, autoCleanDaysOf(config))},
           fs |-> c.fs, started |-> <<autoCleanDaysOf(config)>>] :
            c \in clearCache(f, [given |-> TRUE, olderThanDays |-> autoCleanDaysOf(config)], clock, stuck)}
    ELSE {[interval |-> NoTimer, timers |-> clearInterval(armed, interval), fs |-> f,
           started |-> << >>]}

AutoCleanFile == [autoCleanEnabled |-> TRUE, autoCleanDays |-> 1]

InitAutoClean ==
    /\ autoCleanInterval = NoTimer
    /\ timers = {}
    /\ configFile \in {NoFile, AutoCleanFile}
    /\ storageConfig = loadStorageConfig(configFile)
    /\ \E cacheFiles \in SUBSET {OldFile, EdgeFile} :
          fs = InitialCacheFs(cacheFiles, {CacheDir}, {}, {})
    /\ now = Today
    /\ ops = 0
    /\ last = NoCall(Snapshot(storageConfig, configFile, fs))
    /\ trip = NoTrip

\* the partial configurations the renderer sends to storage-update-config
UpdateInputs ==
    {[autoCleanEnabled |-> TRUE], [autoCleanEnabled |-> FALSE],
     [autoCleanDays |-> 0], [autoCleanDays |-> 2],
     [autoCleanEnabled |-> TRUE, autoCleanDays |-> 0 - 1]}

AutoCleanStuck == {{}, {OldFile}}

\* app.whenReady().then(() => scheduleAutoClean())
ScheduleAutoClean ==
    /\ ops < MaxSchedules
    /\ \E stuck \in AutoCleanStuck :
          \E r \in scheduleAutoClean(storageConfig, autoCleanInterval, timers, fs, now, ops + 1, stuck) :
              /\ autoCleanInterval' = r.interval
              /\ timers' = r.timers
              /\ fs' = r.fs
              /\ last' = [op |-> "schedule", before |-> Snapshot(storageConfig, configFile, fs),
                          kept |-> autoCleanInterval, started |-> r.started]
    /\ ops' = ops + 1
    /\ UNCHANGED <<storageConfig, configFile, now, trip>>

\* storage-update-config on one of the given request objects: merge, save,
\* reschedule, return true
UpdateConfigFrom(requests) ==
    /\ ops < MaxSchedules
    /\ \E partial \in requests, writeFails \in BOOLEAN, stuck \in AutoCleanStuck :
          /\ storageConfig' = mergeStorageConfig(storageConfig, partial)
          /\ configFile' = saveStorageConfig(configFile, storageConfig', writeFails)
          /\ \E r \in scheduleAutoClean(storageConfig', autoCleanInterval, timers, fs, now, ops + 1, stuck) :
                /\ autoCleanInterval' = r.interval
                /\ timers' = r.timers
                /\ fs' = r.fs
                /\ last' = [op |-> "update-config", arg |-> partial, result |-> TRUE,
                            before |-> Snapshot(storageConfig, configFile, fs),
                            kept |-> autoCleanInterval, started |-> r.started]
    /\ ops' = ops + 1
    /\ UNCHANGED <<now, trip>>

\* storage-update-config as the settings page calls it
UpdateConfig == UpdateConfigFrom(UpdateInputs)

\* the period of an armed interval passes and its callback runs
\* clearCache(days)
AutoCleanTick ==
    /\ now < Today + MaxDaysOn
    /\ \E t \in timers, stuck \in AutoCleanStuck :
          /\ now' = now + (t.period \div AutoCleanPeriod)
          /\ \E c \in clearCache(fs, [given |-> TRUE, olderThanDays |-> t.days], now', stuck) :
                fs' = c.fs
          /\ last' = [op |-> "tick", before |-> Snapshot(storageConfig, configFile, fs),
                      kept |-> autoCleanInterval, started |-> <<t.days>>]
    /\ UNCHANGED <<storageConfig, configFile, ops, trip, autoCleanInterval, timers>>

NextAutoClean ==
    \/ ScheduleAutoClean
    \/ UpdateConfig
    \/ AutoCleanTick

SpecAutoClean == InitAutoClean /\ [][NextAutoClean]_vars

\* C18: after any sequence of scheduleAutoClean() calls and update-config
\* operations at most one recurring auto-clean timer is armed, and it is
\* the one whose handle the module keeps; with no handle kept none is armed.
AtMostOneAutoCleanTimer ==
    /\ Cardinality(timers) <= 1
    /\ \A t \in timers : t.id = autoCleanInterval
    /\ (autoCleanInterval = NoTimer) => (timers = {})

\* a call that found an interval armed has cancelled it and armed a new one
AutoCleanRearmed ==
    /\ last.op \in {"schedule", "update-config"}
    /\ last.kept # NoTimer
    /\ autoCleanInterval # NoTimer
    /\ autoCleanInterval # last.kept
    /\ timers = {Timer(autoCleanInterval, autoCleanDaysOf(storageConfig))}

(***************************************************************************)
(* storage-get-paths: the one handler that resolves the roots outside any  *)
(* try/catch.  Resolving a root that is not there creates it, and the      *)
(* creation can throw.                                                     *)
(***************************************************************************)
\* fs.mkdirSync(p, { recursive: true }) throws ENOTDIR/EEXIST when p or a
\* directory above it is a regular file
mkdirSyncThrows(f, p) ==
    \E q \in Ancestors(Loc(p)) \cup {Loc(p)} : IsFile(f, q)

\* ensureDir(dirPath) throws: the directory is absent and its creation
\* fails, on the shape of the tree or on an I/O error (EACCES, EROFS, ENOSPC)
ensureDirThrows(f, dirPath, ioError) ==
    ~existsSync(f, dirPath) /\ (mkdirSyncThrows(f, dirPath) \/ ioError)

\* what storage-get-paths hands back when nothing throws
PathsOf(config) ==
    [basePath |-> getStorageBasePath(config), projectPath |-> ProjectRootOf(config),
     mediaPath |-> MediaRootOf(config), cachePath |-> CacheDir]

\* storage-get-paths: the filesystem it leaves and either the value it
\* returns or the exception that leaves the handler
getPaths(config, f, ioErrors) ==
    IF ensureDirThrows(f, ProjectRootOf(config), "projects" \in ioErrors)
    THEN [fs |-> f, raised |-> TRUE]
    ELSE IF ensureDirThrows(getProjectDataRoot(config, f), MediaRootOf(config), "media" \in ioErrors)
    THEN [fs |-> getProjectDataRoot(config, f), raised |-> TRUE]
    ELSE [fs |-> getMediaRoot(config, getProjectDataRoot(config, f)), raised |-> FALSE,
          result |-> PathsOf(config)]

GetPaths ==
    /\ last.op # "get-paths"
    /\ \E ioErrors \in SUBSET {"projects", "media"} :
          LET r == getPaths(storageConfig, fs, ioErrors)
          IN /\ fs' = r.fs
             /\ last' = [op |-> "get-paths", raised |-> r.raised,
                         before |-> Snapshot(storageConfig, configFile, fs)]
    /\ UNCHANGED <<storageConfig, configFile, now, ops, trip, autoCleanInterval, timers>>

NextBoundary ==
    \/ LinkData
    \/ GetPaths

SpecBoundary == Init /\ [][NextBoundary]_vars

\* C19: an exposed operation returns a value to its caller and raises
\* nothing past the operation boundary, whatever the filesystem does:
\* here, for storage-get-paths.
GetPathsNeverRaises ==
    (last.op = "get-paths") => ~last.raised

(***************************************************************************)
(* C20: an import that fails in its destructive phase returns a failure    *)
(* whose error is the description of the exception that stopped the        *)
(* import, also when restore steps of the rollback fail: no failure of the *)
(* rollback takes its place and none leaves the handler.                   *)
(***************************************************************************)
ImportSteps == {"backupProjects", "backupMedia", "copyProjects", "copyMedia"}

ImportFailureReportsOriginalError ==
    (last.op = "import" /\ (last.threwAt # "none" \/ ~last.restored)) =>
        /\ ~last.success
        /\ last.error = ErrThrown
        /\ last.threwAt \in ImportSteps

\* an import stopped by the copy of the source projects whose rollback
\* could not restore a root
ImportFailedAndRestoreFailed ==
    /\ last.op = "import"
    /\ last.threwAt = "copyProjects"
    /\ ~last.restored
    /\ ~last.success
    /\ last.error = ErrThrown

(***************************************************************************)
(* The configuration store under the handlers that merge into it: link and *)
(* move repoint the base, update-config sets the auto-clean fields.  The   *)
(* configuration loaded at start-up may already carry auto-clean settings. *)
(***************************************************************************)
ConfiguredFile ==
    [basePath |-> P(<<"d">>), autoCleanEnabled |-> TRUE, autoCleanDays |-> 1]

InitConfig ==
    /\ autoCleanInterval = NoTimer
    /\ timers = {}
    /\ configFile \in {NoFile, ConfiguredFile}
    /\ storageConfig = loadStorageConfig(configFile)
    /\ fs = InitialFs(storageConfig, ProjectFileNames, MediaFileNames, "both")
    /\ now = 0
    /\ ops = 0
    /\ last = NoCall(Snapshot(storageConfig, configFile, fs))
    /\ trip = NoTrip

NextConfig ==
    \/ LinkData
    \/ MoveData
    \/ UpdateConfig

SpecConfig == InitConfig /\ [][NextConfig]_vars

ConfigFields == DOMAIN DEFAULT_STORAGE_CONFIG

\* the partial configuration the last call merged, if it merged one
MergedByLast ==
    IF last.op = "update-config" THEN last.arg
    ELSE IF /\ last.op \in {"link", "move"} /\ last.success
            /\ last.op = "move" => last.path # getStorageBasePath(last.before.config)
         THEN [basePath |-> last.path, projectPath |-> EmptyPath, mediaPath |-> EmptyPath]
    ELSE << >>

(***************************************************************************)
(* C21.  A merge overwrites exactly the fields of the partial              *)
(* configuration and leaves every other field at its previous value: link  *)
(* and move leave autoCleanEnabled and autoCleanDays alone, update-config  *)
(* with auto-clean fields leaves basePath, projectPath and mediaPath alone.*)
(***************************************************************************)
MergeOverwritesGivenFieldsOnly ==
    /\ DOMAIN storageConfig = ConfigFields
    /\ \A k \in ConfigFields :
          storageConfig[k] = IF k \in DOMAIN MergedByLast THEN MergedByLast[k]
                             ELSE last.before.config[k]

\* a link that repointed a configuration carrying auto-clean settings
LinkKeptAutoCleanSettings ==
    /\ last.op = "link" /\ last.success
    /\ last.before.config.autoCleanEnabled
    /\ last.before.config.autoCleanDays = 1
    /\ storageConfig.basePath # last.before.config.basePath
    /\ storageConfig.autoCleanEnabled

(***************************************************************************)
(* C22.  A link, a move or an update-config that gets as far as saving the *)
(* configuration returns its normal success result and leaves the merged   *)
(* values in memory whether or not the write of the configuration file     *)
(* succeeds; the file is then either as it was or the merged               *)
(* configuration.  The roots are resolved from the values in memory.       *)
(***************************************************************************)
MoveReachedCommit ==
    /\ last.op = "move" /\ last.arg # EmptyPath /\ last.threwAt = "none"
    /\ normalizePath(last.arg) # getStorageBasePath(last.before.config)
    /\ pathsConflict(getStorageBasePath(last.before.config), normalizePath(last.arg)) = NoConflict

LinkReachedCommit == last.op = "link" /\ ~LinkTargetInvalid

SaveIsBestEffort ==
    /\ (LinkReachedCommit \/ MoveReachedCommit) =>
          /\ last.success /\ last.error = NoError
          /\ last.path = normalizePath(last.arg)
          /\ storageConfig = Repointed(last.before.config, normalizePath(last.arg))
          /\ getStorageBasePath(storageConfig) = getStorageBasePath(Repointed(last.before.config, last.path))
          /\ configFile \in {last.before.file, storageConfig}
    /\ (last.op = "update-config") =>
          /\ last.result = TRUE
          /\ storageConfig = mergeStorageConfig(last.before.config, last.arg)
          /\ configFile \in {last.before.file, storageConfig}

\* a link whose save failed: the file is as it was, the configuration in
\* memory points at the linked directory
LinkSaveFailed ==
    /\ LinkReachedCommit
    /\ configFile = last.before.file
    /\ configFile # storageConfig
    /\ storageConfig.basePath = normalizePath(last.arg)
    /\ storageConfig.basePath # last.before.config.basePath

(***************************************************************************)
(* C27.  An import with an empty path, or from a source that holds neither *)
(* projects/ nor media/, returns a failure and has created no backup       *)
(* directory, deleted and written nothing under the live roots (nor        *)
(* anywhere else) and left the configuration alone.                        *)
(***************************************************************************)
ImportSourceInvalid ==
    \/ last.arg = EmptyPath
    \/ ~SourceHad(ProjectsName) /\ ~SourceHad(MediaName)

ImportRefusalTouchesNothing ==
    (last.op = "import" /\ ImportSourceInvalid) =>
        /\ ~last.success
        /\ last.error = (IF last.arg = EmptyPath THEN ErrEmpty ELSE ErrNoValidData)
        /\ existsSync(fs, BackupDir) = existsSync(last.before.fs, BackupDir)
        /\ fs = last.before.fs
        /\ ConfigAsBefore

\* an import refused for its source while the live project root holds files
ImportRefusedNoValidData ==
    /\ last.op = "import" /\ ~last.success /\ last.error = ErrNoValidData
    /\ last.arg # EmptyPath
    /\ existsSync(last.before.fs, normalizePath(last.arg))
    /\ FilesIn(fs, Loc(ProjectRootBefore)) # {}

(***************************************************************************)
(* storage-import-data step by step.  The handler awaits each copy and     *)
(* removal, so the filesystem passes through the state after each of its   *)
(* steps; trip holds the call in flight: the step it is at and its run.    *)
(***************************************************************************)
LiveProjectNames == {<<"a.json">>, <<"c.json">>, <<"_p", Sep, "_migrated.json">>}
LiveMediaNames == {<<"c.png">>}

InitImport ==
    /\ autoCleanInterval = NoTimer
    /\ timers = {}
    /\ configFile \in {NoFile, [basePath |-> P(<<"d">>)]}
    /\ storageConfig = loadStorageConfig(configFile)
    /\ \E liveProjects \in {{}, LiveProjectNames}, liveMedia \in {{}, LiveMediaNames},
          external \in {"media", "both"} :
            fs = InitialFs(storageConfig, liveProjects, liveMedia, external)
    /\ now = 0
    /\ ops = 0
    /\ last = NoCall(Snapshot(storageConfig, configFile, fs))
    /\ trip = [pc |-> "idle"]

ImportSources == {EmptyPath, ExternalDir, ExportTarget}

\* the run in flight, on the filesystem as it is
Run == [trip.run EXCEPT !.fs = fs]

\* the handler goes on to the next step, or to its catch block
Advance(q, nextPc) ==
    /\ fs' = q.fs
    /\ trip' = [trip EXCEPT !.run = q,
                            !.pc = IF q.threw THEN "restoreProjects" ELSE nextPc,
                            !.backedUp = @ \/ (nextPc = "replaceProjects" /\ ~q.threw)]
    /\ UNCHANGED <<storageConfig, configFile, now, ops, last, autoCleanInterval, timers>>

\* the handler returns
Return(q, success, error) ==
    /\ fs' = q.fs
    /\ trip' = [trip EXCEPT !.pc = "returned", !.run = q]
    /\ last' = [op |-> "import", arg |-> trip.arg, success |-> success, error |-> error,
                path |-> EmptyPath, threwAt |-> q.at, restored |-> q.restored,
                before |-> last.before]
    /\ UNCHANGED <<storageConfig, configFile, now, ops, autoCleanInterval, timers>>

\* lines 195-209: the checks of the source, then the live roots are resolved
ImportEnter ==
    /\ trip.pc = "idle"
    /\ \E sourcePath \in ImportSources :
          LET source == normalizePath(sourcePath)
              hasProjects == existsSync(fs, PathJoin(source, ProjectsName))
              hasMedia == existsSync(fs, PathJoin(source, MediaName))
              refused == sourcePath = EmptyPath \/ (~hasProjects /\ ~hasMedia)
              resolved == getMediaRoot(storageConfig, getProjectDataRoot(storageConfig, fs))
          IN  /\ fs' = IF refused THEN fs ELSE resolved
              /\ trip' = [pc |-> IF refused THEN "returned" ELSE "backupProjects",
                          arg |-> sourcePath, source |-> source,
                          hasProjects |-> hasProjects, hasMedia |-> hasMedia,
                          run |-> Start(fs'), backedUp |-> FALSE]
              /\ last' = IF refused
                         THEN [op |-> "import", arg |-> sourcePath, success |-> FALSE,
                               error |-> IF sourcePath = EmptyPath THEN ErrEmpty
                                         ELSE ErrNoValidData,
                               path |-> EmptyPath, threwAt |-> "none", restored |-> TRUE,
                               before |-> last.before]
                         ELSE last
    /\ ops' = ops + 1
    /\ UNCHANGED <<storageConfig, configFile, now, autoCleanInterval, timers>>

\* lines 212-217
ImportBackupProjects ==
    /\ trip.pc = "backupProjects"
    /\ \E q \in backupRoot(Run, trip.hasProjects, ProjectRootOf(storageConfig),
                           PathJoin(BackupDir, ProjectsName), "backupProjects") :
          Advance(q, "backupMedia")

\* lines 218-223
ImportBackupMedia ==
    /\ trip.pc = "backupMedia"
    /\ \E q \in backupRoot(Run, trip.hasMedia, MediaRootOf(storageConfig),
                           PathJoin(BackupDir, MediaName), "backupMedia") :
          Advance(q, "replaceProjects")

\* lines 225-228
ImportReplaceProjects ==
    /\ trip.pc = "replaceProjects"
    /\ \E q \in replaceRoot(Run, trip.hasProjects, PathJoin(trip.source, ProjectsName),
                            ProjectRootOf(storageConfig), "rmProjects", "copyProjects") :
          Advance(q, "replaceMedia")

\* lines 229-232
ImportReplaceMedia ==
    /\ trip.pc = "replaceMedia"
    /\ \E q \in replaceRoot(Run, trip.hasMedia, PathJoin(trip.source, MediaName),
                            MediaRootOf(storageConfig), "rmMedia", "copyMedia") :
          Advance(q, "clearFlag")

\* lines 234-238
ImportClearFlag ==
    /\ trip.pc = "clearFlag"
    /\ \E q \in clearMigrationFlag(Run, storageConfig) :
          Advance(q, "removeBackup")

\* lines 240-241
ImportRemoveBackup ==
    /\ trip.pc = "removeBackup"
    /\ \E q \in removeBackup(Run) :
          Return(q, TRUE, NoError)

\* lines 247-250
ImportRestoreProjects ==
    /\ trip.pc = "restoreProjects"
    /\ \E q \in restoreRoot([Run EXCEPT !.threw = FALSE], PathJoin(BackupDir, ProjectsName),
                            ProjectRootOf(storageConfig), "restoreProjects") :
          Advance(q, "restoreMedia")

\* lines 251-254
ImportRestoreMedia ==
    /\ trip.pc = "restoreMedia"
    /\ \E q \in restoreRoot(Run, PathJoin(BackupDir, MediaName),
                            MediaRootOf(storageConfig), "restoreMedia") :
          Advance(q, "dropBackup")

\* lines 255-262
ImportDropBackup ==
    /\ trip.pc = "dropBackup"
    /\ \E q \in removeBackup(Run) :
          Return(q, FALSE, ErrThrown)

NextImport ==
    \/ ImportEnter
    \/ ImportBackupProjects
    \/ ImportBackupMedia
    \/ ImportReplaceProjects
    \/ ImportReplaceMedia
    \/ ImportClearFlag
    \/ ImportRemoveBackup
    \/ ImportRestoreProjects
    \/ ImportRestoreMedia
    \/ ImportDropBackup

SpecImport == InitImport /\ [][NextImport]_vars

\* the steps compose to the handler: what a call returns, and the
\* filesystem it leaves, is an outcome of importData
ImportStepsAgree ==
    (trip.pc = "returned") =>
        \E r \in importData(last.before.config, last.before.file, last.before.fs, last.arg) :
            /\ r.fs = fs /\ r.config = storageConfig /\ r.file = configFile
            /\ r.success = last.success /\ r.error = last.error
            /\ r.threwAt = last.threwAt /\ r.restored = last.restored


(***************************************************************************)
(* C25.  After an import that returns success, for each kind of data the   *)
(* source holds, the live root of that kind holds exactly the files of the *)
(* source, with their content, but for the migration flag: no file of the  *)
(* live root from before the import survives.                              *)
(***************************************************************************)
SourceFiles(name) ==
    Contents(last.before.fs, PathJoin(normalizePath(last.arg), name)).files

WithoutFlag(files) ==
    [rel \in DOMAIN files \ {MigrationFlagName} |-> files[rel]]

ImportReplacesRoots ==
    (last.op = "import" /\ last.success) =>
        /\ SourceHad(ProjectsName) =>
              Contents(fs, ProjectRootBefore).files = WithoutFlag(SourceFiles(ProjectsName))
        /\ SourceHad(MediaName) =>
              Contents(fs, MediaRootBefore).files = SourceFiles(MediaName)

\* the same for the imports in which no file operation failed
ImportWithoutFailureReplacesRoots ==
    (trip.pc = "returned" /\ last.success /\ trip.run.budget = MaxFaults) =>
        /\ SourceHad(ProjectsName) =>
              Contents(fs, ProjectRootBefore).files = WithoutFlag(SourceFiles(ProjectsName))
        /\ SourceHad(MediaName) =>
              Contents(fs, MediaRootBefore).files = SourceFiles(MediaName)

(***************************************************************************)
(* C24.  The restore from the backup is for exceptions of steps 2-3 only:  *)
(* an import stopped by an exception while the backup is being made        *)
(* returns a failure and has deleted nothing from and written nothing to   *)
(* a live root.                                                            *)
(***************************************************************************)
BackupSteps == {"backupProjects", "backupMedia"}

ImportBackupFailureLeavesRoots ==
    (last.op = "import" /\ last.threwAt \in BackupSteps) =>
        /\ ~last.success
        /\ ProjectRootAsBefore
        /\ MediaRootAsBefore

(***************************************************************************)
(* C23.  In every execution of an import no live root is deleted or        *)
(* written before the backup copy of every non-empty live root that is     *)
(* going to be replaced has completed, and the backup directory lies       *)
(* outside the live roots.                                                 *)
(***************************************************************************)
\* the call in flight has completed both backup steps
BackupsCompleted == trip.pc # "idle" /\ trip.backedUp

\* the backup directory holds a copy of every non-empty live root that the
\* source replaces
BackupHolds(replaced, liveRoot, name) ==
    (replaced /\ readdir(last.before.fs, liveRoot) # {}) =>
        Contents(fs, PathJoin(BackupDir, name)) = Contents(last.before.fs, liveRoot)

ImportBacksUpBeforeItDestroys ==
    /\ ~WithinTree(Loc(BackupDir), Loc(ProjectRootBefore))
    /\ ~WithinTree(Loc(BackupDir), Loc(MediaRootBefore))
    /\ (trip.pc # "idle" /\ ~BackupsCompleted) => (ProjectRootAsBefore /\ MediaRootAsBefore)
    /\ (trip.pc = "replaceProjects") =>
          /\ BackupHolds(trip.hasProjects, ProjectRootBefore, ProjectsName)
          /\ BackupHolds(trip.hasMedia, MediaRootBefore, MediaName)

\* the same for the steps of the try block alone: up to the end of the
\* backup steps the live roots are as they were, and the replacement starts
\* with the backup complete
ImportTryBacksUpBeforeItDestroys ==
    /\ (trip.pc \in BackupSteps) => (ProjectRootAsBefore /\ MediaRootAsBefore)
    /\ (trip.pc = "replaceProjects") =>
          /\ ProjectRootAsBefore /\ MediaRootAsBefore
          /\ BackupHolds(trip.hasProjects, ProjectRootBefore, ProjectsName)
          /\ BackupHolds(trip.hasMedia, MediaRootBefore, MediaName)

(***************************************************************************)
(* C26.  When an import returns, by its success path or by its rollback,   *)
(* the backup directory does not exist any more; until the last step of    *)
(* either path a backup that was made is still there.                      *)
(***************************************************************************)
BeforeLastStep ==
    {"replaceProjects", "replaceMedia", "clearFlag", "removeBackup",
     "restoreProjects", "restoreMedia", "dropBackup"}

ImportRemovesBackupAtReturn ==
    /\ (trip.pc = "returned") => ~existsSync(fs, BackupDir)
    /\ (trip.pc \in BeforeLastStep /\ trip.backedUp) =>
          /\ BackupHolds(trip.hasProjects, ProjectRootBefore, ProjectsName)
          /\ BackupHolds(trip.hasMedia, MediaRootBefore, MediaName)

\* the same for the imports in which the removal of the backup succeeds
ImportRemovedBackupIsGone ==
    /\ (trip.pc = "returned" /\ trip.run.budget = MaxFaults) => ~existsSync(fs, BackupDir)
    /\ (trip.pc \in BeforeLastStep /\ trip.backedUp) =>
          /\ BackupHolds(trip.hasProjects, ProjectRootBefore, ProjectsName)
          /\ BackupHolds(trip.hasMedia, MediaRootBefore, MediaName)

(***************************************************************************)
(* storage-move-data step by step.  The handler awaits each copy and each  *)
(* removal; trip holds the call in flight.                                 *)
(***************************************************************************)
SiblingBase == <<Sep, "u", "x">>    \* '/ux': beside the default directory '/u'

\* what the directory /m may hold before a move into it: a project file of
\* the name of a live one, with another content, and one of another name
TargetHeld ==
    {PathJoin(PathJoin(P(<<"m">>), ProjectsName), <<"a.json">>),
     PathJoin(PathJoin(P(<<"m">>), ProjectsName), <<"k.json">>)}

\* the filesystem f with the files of held added, each of content 2
WithFiles(f, held) ==
    MkFs(f.dirs, [q \in DOMAIN f.files \cup held |->
                     IF q \in held THEN 2 ELSE f.files[q]])

InitMove ==
    /\ autoCleanInterval = NoTimer
    /\ timers = {}
    /\ configFile \in {NoFile, [basePath |-> P(<<"d">>)], [basePath |-> SiblingBase],
                       [basePath |-> P(<<"u", "n">>)]}
    /\ storageConfig = loadStorageConfig(configFile)
    /\ \E liveProjects \in {{}, ProjectFileNames}, liveMedia \in SUBSET MediaFileNames,
          held \in {{}, TargetHeld} :
          fs = WithFiles(InitialFs(storageConfig, liveProjects, liveMedia, "media"), held)
    /\ now = 0
    /\ ops = 0
    /\ last = NoCall(Snapshot(storageConfig, configFile, fs))
    /\ trip = [pc |-> "idle"]

MoveTargets ==
    {EmptyPath, P(<<"d">>), <<Sep, "d", Sep>>, P(<<"d", "s">>), RootPath, P(<<"m">>)}

\* the handler returns; t is the call in flight
MoveReturn(t, q, success, error, path) ==
    /\ fs' = q.fs
    /\ trip' = [t EXCEPT !.pc = "returned", !.run = q]
    /\ last' = [op |-> "move", arg |-> t.arg, success |-> success, error |-> error,
                path |-> path, threwAt |-> q.at, restored |-> q.restored,
                before |-> last.before]

\* the handler goes on to its next step, or returns the failure it caught
MoveAdvance(q, nextPc, resolved) ==
    IF q.threw THEN MoveReturn(trip, q, FALSE, ErrThrown, EmptyPath)
    ELSE /\ fs' = resolved
         /\ trip' = [trip EXCEPT !.pc = nextPc, !.run = [q EXCEPT !.fs = resolved]]
         /\ last' = last

\* lines 116-132: the checks, the target directories, the project root
MoveEnter ==
    /\ trip.pc = "idle"
    /\ \E newPath \in MoveTargets :
          LET target == normalizePath(newPath)
              currentBase == getStorageBasePath(storageConfig)
              conflictError == pathsConflict(currentBase, target)
              entered ==
                  getProjectDataRoot(storageConfig,
                      ensureDir(ensureDir(fs, PathJoin(target, ProjectsName)),
                                PathJoin(target, MediaName)))
              call == [pc |-> "copyProjects", arg |-> newPath, target |-> target,
                       run |-> Start(entered)]
          IN  IF newPath = EmptyPath
              THEN MoveReturn(call, Start(fs), FALSE, ErrEmpty, EmptyPath)
              ELSE IF currentBase = target
              THEN MoveReturn(call, Start(fs), TRUE, NoError, currentBase)
              ELSE IF conflictError # NoConflict
              THEN MoveReturn(call, Start(fs), FALSE, conflictError, EmptyPath)
              ELSE /\ fs' = entered
                   /\ trip' = call
                   /\ last' = last
    /\ ops' = ops + 1
    /\ UNCHANGED <<storageConfig, configFile, now, autoCleanInterval, timers>>

\* lines 133-140: the entries of the project root, then the media root
MoveCopyProjects ==
    /\ trip.pc = "copyProjects"
    /\ \E q \in (IF existsSync(fs, ProjectRootOf(storageConfig))
                 THEN copyEntries(Run, ProjectRootOf(storageConfig),
                                  PathJoin(trip.target, ProjectsName), "copyProjects")
                 ELSE {Run}) :
          MoveAdvance(q, "copyMedia", getMediaRoot(storageConfig, q.fs))
    /\ UNCHANGED <<storageConfig, configFile, now, ops, autoCleanInterval, timers>>

\* lines 142-150: the entries of the media root
MoveCopyMedia ==
    /\ trip.pc = "copyMedia"
    /\ \E q \in (IF existsSync(fs, MediaRootOf(storageConfig))
                 THEN copyEntries(Run, MediaRootOf(storageConfig),
                                  PathJoin(trip.target, MediaName), "copyMedia")
                 ELSE {Run}) :
          MoveAdvance(q, "commit", q.fs)
    /\ UNCHANGED <<storageConfig, configFile, now, ops, autoCleanInterval, timers>>

\* lines 152-153: the configuration is repointed and saved
MoveCommit ==
    /\ trip.pc = "commit"
    /\ storageConfig' = Repointed(storageConfig, trip.target)
    /\ \E writeFails \in BOOLEAN :
          configFile' = saveStorageConfig(configFile, storageConfig', writeFails)
    /\ trip' = [trip EXCEPT !.pc = "removeProjects"]
    /\ UNCHANGED <<fs, now, ops, last, autoCleanInterval, timers>>

\* lines 155-158: the old project root
MoveRemoveProjects ==
    /\ trip.pc = "removeProjects"
    /\ \E q \in removeOldRoot(Run, ProjectRootBefore, "rmProjects") :
          MoveAdvance(q, "removeMedia", q.fs)
    /\ UNCHANGED <<storageConfig, configFile, now, ops, autoCleanInterval, timers>>

\* lines 159-163: the old media root, and the return
MoveRemoveMedia ==
    /\ trip.pc = "removeMedia"
    /\ \E q \in removeOldRoot(Run, MediaRootBefore, "rmMedia") :
          MoveReturn(trip, q, TRUE, NoError, trip.target)
    /\ UNCHANGED <<storageConfig, configFile, now, ops, autoCleanInterval, timers>>

NextMove ==
    \/ MoveEnter
    \/ MoveCopyProjects
    \/ MoveCopyMedia
    \/ MoveCommit
    \/ MoveRemoveProjects
    \/ MoveRemoveMedia

SpecMove == InitMove /\ [][NextMove]_vars

\* the steps compose to the handler: what a call returns, and the
\* configuration and filesystem it leaves, is an outcome of moveData
MoveStepsAgree ==
    (trip.pc = "returned") =>
        \E r \in moveData(last.before.config, last.before.file, last.before.fs, last.arg) :
            /\ r.fs = fs /\ r.config = storageConfig /\ r.file = configFile
            /\ r.success = last.success /\ r.error = last.error
            /\ r.path = last.path /\ r.threwAt = last.threwAt

(***************************************************************************)
(* C28.  In every execution of a move the steps come in this order: the    *)
(* entries of both roots are copied, then the configuration is pointed at  *)
(* the target and saved, then the old roots are removed.  No old root is   *)
(* removed while the configuration points at the old base, and the         *)
(* configuration never points at the target while the copy is incomplete.  *)
(***************************************************************************)
CopySteps == {"copyProjects", "copyMedia", "commit"}

\* every file that was under the old root is under the target root, with
\* its content
MoveCopied(oldRoot, name) ==
    \A q \in FilesIn(last.before.fs, Loc(oldRoot)) :
        LET copy == Rebase(q, Loc(oldRoot), Loc(PathJoin(trip.target, name)))
        IN  copy \in DOMAIN fs.files /\ fs.files[copy] = last.before.fs.files[q]

OldRootsKept ==
    /\ KeptFiles(ProjectRootBefore) /\ existsSync(fs, ProjectRootBefore)
    /\ KeptFiles(MediaRootBefore) /\ existsSync(fs, MediaRootBefore)

MoveCopiesThenRepointsThenRemoves ==
    (trip.pc # "idle") =>
        /\ (trip.pc \in CopySteps) => (ConfigAsBefore /\ OldRootsKept)
        /\ (storageConfig # last.before.config) =>
              /\ storageConfig = Repointed(last.before.config, trip.target)
              /\ configFile \in {last.before.file, storageConfig}
              /\ trip.pc \in {"removeProjects", "removeMedia", "returned"}
              /\ MoveCopied(ProjectRootBefore, ProjectsName)
              /\ MoveCopied(MediaRootBefore, MediaName)
        /\ ~OldRootsKept =>
              /\ storageConfig = Repointed(last.before.config, trip.target)
              /\ trip.pc \in {"removeMedia", "returned"}

\* a move in flight that has copied, repointed and removed the old project
\* root and has the old media root still to remove
MoveRemovedFirstOldRoot ==
    /\ trip.pc = "removeMedia"
    /\ FilesIn(last.before.fs, Loc(ProjectRootBefore)) # {}
    /\ ~existsSync(fs, ProjectRootBefore)
    /\ FilesIn(fs, Loc(MediaRootBefore)) # {}
    /\ MoveCopied(ProjectRootBefore, ProjectsName)
    /\ getStorageBasePath(storageConfig) = P(<<"m">>)

(***************************************************************************)
(* C29.  A move never removes an old project root or old media root that   *)
(* lies inside the default application-data directory: after a successful  *)
(* move away from such a base both old roots are there with what they      *)
(* held.                                                                   *)
(***************************************************************************)
OldBase == Loc(getStorageBasePath(last.before.config))

OldBaseInUserData == WithinTree(OldBase, Loc(UserData))

MovedAway ==
    /\ trip.pc = "returned" /\ last.op = "move" /\ last.success
    /\ last.path # getStorageBasePath(last.before.config)

MoveKeepsRootsInUserData ==
    /\ (trip.pc # "idle" /\ OldBaseInUserData) => (ProjectRootAsBefore /\ MediaRootAsBefore)
    /\ (MovedAway /\ OldBaseInUserData) =>
          existsSync(fs, ProjectRootBefore) /\ existsSync(fs, MediaRootBefore)

\* a move from the default base to /m: the data is under both
MovedAwayFromUserData ==
    /\ MovedAway /\ OldBase = Loc(UserData)
    /\ getStorageBasePath(storageConfig) = P(<<"m">>)
    /\ FilesIn(fs, Loc(ProjectRootBefore)) # {}
    /\ MoveCopied(ProjectRootBefore, ProjectsName)

(***************************************************************************)
(* C30.  After a successful move to a path other than the old base the     *)
(* data exists once: when the old base is not inside the default           *)
(* application-data directory, the old project root and the old media      *)
(* root do not exist any more.                                             *)
(***************************************************************************)
MoveLeavesSingleCopy ==
    (MovedAway /\ ~OldBaseInUserData) =>
        ~existsSync(fs, ProjectRootBefore) /\ ~existsSync(fs, MediaRootBefore)

\* the same for the moves in which no file operation failed, from a base
\* whose path does not begin with the characters of the default directory
MoveWithoutFailureLeavesSingleCopy ==
    (MovedAway /\ ~StartsWith(OldBase, UserData) /\ trip.run.budget = MaxFaults) =>
        ~existsSync(fs, ProjectRootBefore) /\ ~existsSync(fs, MediaRootBefore)

(***************************************************************************)
(* C31.  After a move that reports success, every file that was under the  *)
(* old project root is at the same relative path under path/projects and   *)
(* every file that was under the old media root is at the same relative    *)
(* path under path/media, with the content it had.  A file the target      *)
(* held at the path of a moved one has the moved content; every other      *)
(* file the target held is kept as it was.                                 *)
(***************************************************************************)
\* the files the target root held that no moved file is copied onto
TargetOthersKept(oldRoot, name) ==
    LET targetRoot == Loc(PathJoin(trip.target, name))
        moved == {Rebase(q, Loc(oldRoot), targetRoot) :
                      q \in FilesIn(last.before.fs, Loc(oldRoot))}
    IN  \A q \in FilesIn(last.before.fs, targetRoot) \ moved :
            q \in DOMAIN fs.files /\ fs.files[q] = last.before.fs.files[q]

MoveCopiesOntoTarget ==
    (trip.pc = "returned" /\ last.op = "move" /\ last.success) =>
        /\ MoveCopied(ProjectRootBefore, ProjectsName)
        /\ MoveCopied(MediaRootBefore, MediaName)
        /\ TargetOthersKept(ProjectRootBefore, ProjectsName)
        /\ TargetOthersKept(MediaRootBefore, MediaName)

\* a move into /m, which held a.json with another content and k.json: a.json
\* has the content of the live one, k.json is as it was
MovedOntoHeldTarget ==
    /\ MovedAway /\ trip.target = P(<<"m">>)
    /\ TargetHeld \subseteq DOMAIN last.before.fs.files
    /\ PathJoin(ProjectRootBefore, <<"a.json">>) \in DOMAIN last.before.fs.files
    /\ fs.files[PathJoin(PathJoin(P(<<"m">>), ProjectsName), <<"a.json">>)] = 1
    /\ fs.files[PathJoin(PathJoin(P(<<"m">>), ProjectsName), <<"k.json">>)] = 2

(***************************************************************************)
(* C32.  A scheduleAutoClean() that finds auto-clean disabled cancels the  *)
(* interval the module keeps, leaves none armed, and starts no clear; no   *)
(* interval runs until a later call finds auto-clean enabled.  One that    *)
(* finds it enabled starts one clear at once and arms one interval of a    *)
(* 24-hour period, and every run of that interval starts the same clear.   *)
(***************************************************************************)
\* the clear scheduleAutoClean starts under the configuration in force
AutoCleanClear == <<autoCleanDaysOf(storageConfig)>>

ScheduleFollowsPolicy ==
    /\ (last.op \in {"schedule", "update-config"} /\ ~storageConfig.autoCleanEnabled) =>
          /\ last.started = << >>
          /\ fs = last.before.fs
          /\ autoCleanInterval = NoTimer
    /\ (last.op \in {"schedule", "update-config"} /\ storageConfig.autoCleanEnabled) =>
          /\ last.started = AutoCleanClear
          /\ autoCleanInterval \notin {NoTimer, last.kept}
    /\ (last.op = "tick") =>
          /\ storageConfig.autoCleanEnabled
          /\ last.started = AutoCleanClear
    /\ (ops > 0) =>
          timers = (IF storageConfig.autoCleanEnabled
                    THEN {[id |-> autoCleanInterval, days |-> autoCleanDaysOf(storageConfig),
                           period |-> 24]}
                    ELSE {})

\* auto-clean was enabled and its interval has run; an update that
\* disables it has cancelled the interval
AutoCleanDisabledAfterRun ==
    /\ last.op = "update-config"
    /\ ~storageConfig.autoCleanEnabled
    /\ last.before.config.autoCleanEnabled
    /\ last.kept # NoTimer
    /\ now > Today
    /\ timers = {}

(***************************************************************************)
(* C33.  Every clear auto-clean starts, at once or from its interval, is   *)
(* an age-based clear whose threshold is the autoCleanDays the             *)
(* configuration holds: it is given that number of days, takes it as a     *)
(* threshold, and keeps every cache file not older than it.                *)
(***************************************************************************)
\* the last step started a clear of the cache
AutoCleanCleared ==
    last.op \in {"schedule", "update-config", "tick"} /\ last.started # << >>

AutoCleanIsAgeBased ==
    AutoCleanCleared =>
        /\ last.started = <<storageConfig.autoCleanDays>>
        /\ HasThreshold([olderThanDays |-> last.started[1]])
        /\ \A q \in CacheFilesBefore :
              last.before.fs.files[q].mtime >= now - storageConfig.autoCleanDays =>
                  KeptAsBefore(q)

\* the same for the configurations whose autoCleanDays is positive
PositiveAutoCleanIsAgeBased ==
    (AutoCleanCleared /\ storageConfig.autoCleanDays > 0) =>
        /\ last.started = <<storageConfig.autoCleanDays>>
        /\ HasThreshold([olderThanDays |-> last.started[1]])
        /\ \A q \in CacheFilesBefore :
              last.before.fs.files[q].mtime >= now - storageConfig.autoCleanDays =>
                  KeptAsBefore(q)

(***************************************************************************)
(* The handlers that change the configuration in memory, in any order:     *)
(* link, the legacy links, move and update-config.                         *)
(***************************************************************************)
NextPersist ==
    \/ LinkData
    \/ LinkLegacyData
    \/ MoveData
    \/ UpdateConfig

SpecPersist == InitConfig /\ [][NextPersist]_vars

\* what loadStorageConfig() would return at a restart equals the
\* configuration in memory
InSync(config, file) == loadStorageConfig(file) = config

RECURSIVE SumOfSizes(_, _)
SumOfSizes(f, files) ==
    IF files = {} THEN 0
    ELSE LET q == CHOOSE x \in files : TRUE
         IN  f.files[q].size + SumOfSizes(f, files \ {q})

\* the sizes of the files under a directory that can be stat-ed
TreeSize(f, dirPath, broken) == SumOfSizes(f, FilesIn(f, Loc(dirPath)) \ broken)

CacheSizeShape ==
    (last.op = "get-cache-size") =>
        /\ DOMAIN last.result.details = DOMAIN getCacheDirs
        /\ \A i \in DOMAIN getCacheDirs :
              /\ last.result.details[i].path = getCacheDirs[i]
              /\ ~IsDir(fs, getCacheDirs[i]) => last.result.details[i].size = 0
        /\ last.result.total = last.result.details[1].size
                                + last.result.details[2].size + last.result.details[3].size
        /\ fs = last.before.fs

CacheSizeIsRecursiveSize ==
    /\ CacheSizeShape
    /\ (last.op = "get-cache-size") =>
          \A i \in DOMAIN getCacheDirs :
              last.result.details[i].size = TreeSize(fs, getCacheDirs[i], last.broken)

\* the same when every entry of the cache can be stat-ed
ReadableCacheSizeIsRecursiveSize ==
    /\ CacheSizeShape
    /\ (last.op = "get-cache-size" /\ last.broken = {}) =>
          \A i \in DOMAIN getCacheDirs :
              last.result.details[i].size = TreeSize(fs, getCacheDirs[i], {})

(***************************************************************************)
(* C36.  Whenever an import has thrown and been rolled back with every     *)
(* restore copy succeeding, the live project root and the live media root  *)
(* each hold exactly what they held before the import, a root that was     *)
(* empty or absent included: no file of the source is left in a live root. *)
(***************************************************************************)
ImportRolledBack ==
    last.op = "import" /\ ~last.success /\ last.threwAt # "none" /\ last.restored

ImportRollbackRestoresEveryRoot ==
    ImportRolledBack => (ProjectRootAsBefore /\ MediaRootAsBefore)

\* the same for the roots that held something before the import, when the
\* import got past its backups
ImportRollbackRestoresFilledRoots ==
    (ImportRolledBack /\ last.threwAt \notin BackupSteps) =>
        /\ readdir(last.before.fs, ProjectRootBefore) # {} => ProjectRootAsBefore
        /\ readdir(last.before.fs, MediaRootBefore) # {} => MediaRootAsBefore

(***************************************************************************)
(* The cache and the base path together: the base is repointed by a move   *)
(* or a link, to a directory outside the application's directory or to one *)
(* inside its cache, and the cache is cleared.  The live files are stamped *)
(* Today, as a copy stamps them.                                           *)
(***************************************************************************)
LinkedInCache == PathJoin(PathJoin(CacheSubDir, ProjectsName), <<"k.json">>)

InitCacheBase ==
    /\ autoCleanInterval = NoTimer
    /\ timers = {}
    /\ configFile \in {NoFile, [basePath |-> P(<<"d">>)]}
    /\ storageConfig = loadStorageConfig(configFile)
    /\ \E cacheFiles \in SUBSET {OldFile, LinkedInCache}, liveMedia \in SUBSET MediaFileNames :
          LET live == {PathJoin(ProjectRootOf(storageConfig), <<"a.json">>)}
                      \cup {PathJoin(MediaRootOf(storageConfig), n) : n \in liveMedia}
          IN  fs = MkFs({RootPath, UserData, TmpDir, CacheDir, ProjectRootOf(storageConfig),
                         MediaRootOf(storageConfig)},
                        [q \in live \cup cacheFiles |->
                            IF q = OldFile THEN StatOf[q] ELSE [size |-> 1, mtime |-> Today]])
    /\ now = Today
    /\ ops = 0
    /\ last = NoCall(Snapshot(storageConfig, configFile, fs))
    /\ trip = NoTrip

\* the directories the user picks as the new base
CacheBaseInputs == {P(<<"m">>), CacheDir, CacheSubDir}

\* storage-move-data
MoveNearCache ==
    /\ ops < MaxOps
    /\ \E newPath \in CacheBaseInputs :
          \E r \in moveData(storageConfig, configFile, fs, newPath) :
              Call("move", newPath, r)
    /\ UNCHANGED <<now, trip>>

\* storage-link-data
LinkNearCache ==
    /\ ops < MaxOps
    /\ \E dirPath \in CacheBaseInputs :
          \E r \in linkData(storageConfig, configFile, fs, dirPath) :
              Call("link", dirPath, r)
    /\ UNCHANGED <<now, trip>>

\* storage-clear-cache
ClearCacheNearBase ==
    /\ last.op # "clear-cache"
    /\ \E options \in ClearOptions :
          \E r \in clearCache(fs, options, now, {}) :
              /\ fs' = r.fs
              /\ last' = [op |-> "clear-cache", arg |-> options, success |-> TRUE,
                          clearedBytes |-> r.cleared,
                          before |-> Snapshot(storageConfig, configFile, fs)]
    /\ UNCHANGED <<storageConfig, configFile, now, ops, trip, autoCleanInterval, timers>>

NextCacheBase ==
    \/ MoveNearCache
    \/ LinkNearCache
    \/ ClearCacheNearBase

SpecCacheBase == InitCacheBase /\ [][NextCacheBase]_vars

(***************************************************************************)
(* C37.  No clear of the cache, with or without an age threshold, deletes  *)
(* a file under the resolved project root or media root, whatever base the *)
(* configuration has been given by a link or a move.                       *)
(***************************************************************************)
LiveFilesBefore ==
    FilesIn(last.before.fs, Loc(ProjectRootOf(storageConfig)))
    \cup FilesIn(last.before.fs, Loc(MediaRootOf(storageConfig)))

ClearCacheSparesLiveRoots ==
    (last.op = "clear-cache") => \A q \in LiveFilesBefore : KeptAsBefore(q)

\* the same for the bases that do not lie in a cache directory
ClearCacheSparesRootsOutsideCache ==
    (last.op = "clear-cache" /\ ~InCache(Loc(getStorageBasePath(storageConfig)))) =>
        \A q \in LiveFilesBefore : KeptAsBefore(q)

(***************************************************************************)
(* file-storage-set while a move is in flight.  The renderer's store       *)
(* writes a record through the handler at any await of the move; the       *)
(* handler resolves the project root from the configuration as it is at    *)
(* that moment.  trip.written is the record written during the move.       *)
(***************************************************************************)
\* `${key}.json` for the keys the store writes
KeyFile == [w |-> <<"w.json">>, a |-> <<"a.json">>]
StorageKeys == DOMAIN KeyFile

\* the content of a record the store writes
WrittenValue == 3

\* path-utils.ts getDataDir(): the project root, created when missing
getDataDir(config, f) == mkdirSync(getProjectDataRoot(config, f), ProjectRootOf(config))

\* file-storage-set: the filesystem it leaves and the value it returns;
\* a write that throws is caught and answered with false
fileStorageSet(config, f, key, value, fails) ==
    LET filePath == PathJoin(ProjectRootOf(config), KeyFile[key])
        ensured == ensureDir(getDataDir(config, f), PathDirname(filePath))
    IN  IF fails THEN [fs |-> ensured, result |-> FALSE]
        ELSE [fs |-> writeFileSync(ensured, filePath, value), result |-> TRUE]

MoveInFlight == {"copyProjects", "copyMedia", "commit", "removeProjects", "removeMedia"}

FileStorageSet ==
    /\ trip.pc \in MoveInFlight
    /\ "written" \notin DOMAIN trip
    /\ \E key \in StorageKeys, fails \in BOOLEAN :
          LET r == fileStorageSet(storageConfig, fs, key, WrittenValue, fails)
          IN  /\ fs' = r.fs
              /\ trip' = trip @@ [written |-> IF r.result THEN key ELSE "none",
                                  writtenAt |-> trip.pc]
    /\ UNCHANGED <<storageConfig, configFile, now, ops, last, autoCleanInterval, timers>>

NextMoveWrite ==
    \/ MoveEnter
    \/ MoveCopyProjects
    \/ MoveCopyMedia
    \/ MoveCommit
    \/ MoveRemoveProjects
    \/ MoveRemoveMedia
    \/ FileStorageSet

SpecMoveWrite == InitMove /\ [][NextMoveWrite]_vars

(***************************************************************************)
(* C38.  A record that file-storage-set has written into the live project  *)
(* root while a move was in flight is under the project root of the new    *)
(* base, with the content written, once the move has returned success.     *)
(***************************************************************************)
\* the move has returned success after a record was written during it
MovedWithWrite ==
    /\ trip.pc = "returned" /\ last.op = "move" /\ last.success
    /\ "written" \in DOMAIN trip /\ trip.written # "none"

WrittenIsLive ==
    LET filePath == PathJoin(ProjectRootOf(storageConfig), KeyFile[trip.written])
    IN  IsFile(fs, filePath) /\ fs.files[Loc(filePath)] = WrittenValue

MoveKeepsConcurrentWrite == MovedWithWrite => WrittenIsLive

\* the same for the records written before the copy of the project root
\* has begun, or after the configuration has been repointed, in a move to
\* another directory than the old base
MoveKeepsWriteOutsideCopy ==
    (/\ MovedWithWrite
     /\ trip.writtenAt \in {"copyProjects", "removeProjects", "removeMedia"}
     /\ Loc(trip.target) # OldBase) =>
        WrittenIsLive

(***************************************************************************)
(* storage-update-config on any object the channel delivers.  The type of  *)
(* the handler's parameter is erased at run time; the renderer can invoke  *)
(* the channel with an object that carries other fields of StorageConfig.  *)
(***************************************************************************)
RequestObjects ==
    UpdateInputs
    \cup {[basePath |-> ExternalDir],
          [autoCleanDays |-> 2, projectPath |-> PathJoin(P(<<"m">>), ProjectsName)]}

UpdateConfigAny == UpdateConfigFrom(RequestObjects)

NextUpdate ==
    \/ UpdateConfigAny
    \/ AutoCleanTick

SpecUpdate == InitConfig /\ [][NextUpdate]_vars

(***************************************************************************)
(* C39.  storage-update-config leaves basePath, projectPath and mediaPath  *)
(* as they were, whatever object it is called with, so that the resolved   *)
(* project root and media root are the same after it as before.            *)
(***************************************************************************)
PathFields == {"basePath", "projectPath", "mediaPath"}

UpdateConfigKeepsPaths ==
    (last.op = "update-config") =>
        /\ \A k \in PathFields : storageConfig[k] = last.before.config[k]
        /\ ProjectRootOf(storageConfig) = ProjectRootBefore
        /\ MediaRootOf(storageConfig) = MediaRootBefore

\* the same for the request objects that carry auto-clean fields only
TypedUpdateConfigKeepsPaths ==
    (last.op = "update-config" /\ DOMAIN last.arg \cap PathFields = {}) =>
        /\ \A k \in PathFields : storageConfig[k] = last.before.config[k]
        /\ ProjectRootOf(storageConfig) = ProjectRootBefore
        /\ MediaRootOf(storageConfig) = MediaRootBefore

====
